---- MODULE Spec2Model ----
(***************************************************************************)
(* langtwo: the IR builder (src/src/ir_builder.rs) lowering an AST to a    *)
(* register IR, and the VM (src/src/vm.rs) executing that IR.              *)
(*                                                                         *)
(* A behaviour is one compile-and-run of one program, as the tests' helper *)
(* vm_this does it: IRBuilder::new().build(ast), VM::new(ir), vm.run().    *)
(* Build is the whole of build(); VMNew is VM::new; every iteration of the *)
(* loop of VM::run is one step, one action per arm of its match.           *)
(***************************************************************************)
EXTENDS Integers, Sequences, FiniteSets, TLC

VARIABLES
    ast,          \* the AstProgram handed to build(): a sequence of statements
    builder,      \* IRBuilder { next_free_label, frames }
    build_result, \* "none" before build(); then "ok", "err" (Err(..)) or "panic";
                  \* "given" when the IR was not built from ast
    ir,           \* IR { instructions, return_reg }
    vm_state,     \* "none" before VM::new; "running" inside run(); "done"; "panic"
    ip,           \* VM.ip
    stack,        \* VM.stack, the operand stack
    label_map,    \* VM.label_map
    frames,       \* VM.frames, one register file per activation
    return_ips    \* VM.return_ips

vars == <<ast, builder, build_result, ir, vm_state, ip, stack, label_map, frames, return_ips>>

(***************************************************************************)
(* Bounds of the programs the model compiles and runs.                     *)
(***************************************************************************)
MaxLit == 2       \* integer literals range over -MaxLit..MaxLit and the two i32 extremes
MaxArgs == 3      \* parameters of a declared function, arguments of a call
MaxFib == 10      \* steps of the accumulator Fibonacci
MaxTrail == 2     \* function definitions before / after the top-level statements

I32Max == 2147483647
I32Min == -I32Max - 1

(***************************************************************************)
(* Option<T>: None is the empty sequence, Some(x) the one-element one.     *)
(***************************************************************************)
None == << >>
Some(x) == << x >>

(***************************************************************************)
(* ir.rs / ir_builder.rs: Reg, Label, Operation.                           *)
(***************************************************************************)
Global(n) == [class |-> "Global", addr |-> n]
Arp(n) == [class |-> "Arp", addr |-> n]

Named(s) == [kind |-> "Named", name |-> s, num |-> 0]
Numbered(n) == [kind |-> "Numbered", name |-> "", num |-> n]

OpLabel(l) == [op |-> "Label", label |-> l]
OpCall(l) == [op |-> "Call", label |-> l]
OpReturn == [op |-> "Return"]
OpPush(r) == [op |-> "Push", reg |-> r]
OpPop(r) == [op |-> "Pop", reg |-> r]
OpBin(name, l, r, o) == [op |-> name, lhs |-> l, rhs |-> r, out |-> o]
OpLoadI(v, o) == [op |-> "LoadI", val |-> v, out |-> o]
OpI2i(l, r) == [op |-> "I2i", lhs |-> l, rhs |-> r]
OpJumpI(l) == [op |-> "JumpI", label |-> l]
OpCondBranch(c, lt, lf) == [op |-> "CondBranch", cond |-> c, label_true |-> lt, label_false |-> lf]

(***************************************************************************)
(* The AST the builder consumes (the variants ir_builder.rs matches on).   *)
(***************************************************************************)
AstInt(v) == [k |-> "Int", val |-> v]
AstStr(s) == [k |-> "Str", val |-> s]
AstBoolean(v) == [k |-> "Boolean", val |-> v]
AstName(n) == [k |-> "Name", name |-> n]
AstAssignment(n, e) == [k |-> "Assignment", varname |-> n, expr |-> e]
AstBinOp(l, o, r) == [k |-> "BinOp", lhs |-> l, op |-> o, rhs |-> r]
AstIf(c, t, f) == [k |-> "If", cond |-> c, true_block |-> t, false_block |-> f]
AstFnCall(n, a) == [k |-> "FnCall", name |-> n, args |-> a]
AstParenExpr(e) == [k |-> "ParenExpr", expr |-> e]

LineExpr(e) == [k |-> "Expr", expr |-> e]
LineLoop(b) == [k |-> "Loop", block |-> b]
LineBreak == [k |-> "Break"]

StmtFnDef(n, a, b) == [k |-> "FnDef", name |-> n, args |-> a, block |-> b]
StmtBlockLine(l) == [k |-> "BlockLine", line |-> l]
StmtExpr(e) == StmtBlockLine(LineExpr(e))

\* shared.rs: enum Op
Ops == {"Add", "Sub", "Mul", "Div", "Mod", "Eq", "Lt", "Gt", "Lte", "Gte"}

(***************************************************************************)
(* IRBuilder.  Every build_* operator takes the builder b and returns      *)
(*   [res, b, out, ops]: res is "ok", "err" (an Err(..) return, passed up  *)
(*   by `?`) or "panic" (unimplemented!()); b is the builder afterwards;   *)
(*   out is the Option<Reg> result register; ops the operations emitted.   *)
(***************************************************************************)
NewScope == [next_free_reg_addr |-> 0, variables |-> << >>]
NewBuilder == [next_free_label |-> 0, frames |-> << NewScope >>]

Ok(b, out, ops) == [res |-> "ok", b |-> b, out |-> out, ops |-> ops]
Err(b) == [res |-> "err", b |-> b, out |-> None, ops |-> << >>]
Panic(b) == [res |-> "panic", b |-> b, out |-> None, ops |-> << >>]

\* variant of next_free_reg_addr: a Global register at every depth
next_free_reg_addr_global(b) ==
    LET n == Len(b.frames)
        addr == b.frames[n].next_free_reg_addr
    IN  [b |-> [b EXCEPT !.frames[n].next_free_reg_addr = addr + 1],
         reg |-> Global(addr)]

\* variant of next_free_reg_addr: the counter is not advanced
next_free_reg_addr_reused(b) ==
    LET n == Len(b.frames)
        addr == b.frames[n].next_free_reg_addr
    IN  [b |-> b, reg |-> IF n = 1 THEN Global(addr) ELSE Arp(addr)]

next_free_reg_addr(b) ==
    LET n == Len(b.frames)
        addr == b.frames[n].next_free_reg_addr
    IN  [b |-> [b EXCEPT !.frames[n].next_free_reg_addr = addr + 1],
         reg |-> IF n = 1 THEN Global(addr) ELSE Arp(addr)]

\* variant of get_variable_reg_addr: a name unbound in the innermost scope is looked up
\* in the top-level scope before a register is allocated for it
get_variable_reg_addr_outer(b, name) ==
    LET n == Len(b.frames)
    IN  IF name \in DOMAIN b.frames[n].variables
        THEN [b |-> b, reg |-> b.frames[n].variables[name]]
        ELSE IF name \in DOMAIN b.frames[1].variables
        THEN [b |-> b, reg |-> b.frames[1].variables[name]]
        ELSE LET a == next_free_reg_addr(b)
             IN  [b |-> [a.b EXCEPT !.frames[n].variables = (name :> a.reg) @@ @],
                  reg |-> a.reg]

get_variable_reg_addr(b, name) ==
    LET n == Len(b.frames)
    IN  IF name \in DOMAIN b.frames[n].variables
        THEN [b |-> b, reg |-> b.frames[n].variables[name]]
        ELSE LET a == next_free_reg_addr(b)
             IN  [b |-> [a.b EXCEPT !.frames[n].variables = (name :> a.reg) @@ @],
                  reg |-> a.reg]

\* variant of next_free_label: the counter is not advanced
next_free_label_reused(b) == [b |-> b, label |-> Numbered(b.next_free_label)]

next_free_label(b) ==
    [b |-> [b EXCEPT !.next_free_label = @ + 1], label |-> Numbered(b.next_free_label)]

build_expr_int(b, val) ==
    LET a == next_free_reg_addr(b)
    IN  Ok(a.b, Some(a.reg), << OpLoadI(val, a.reg) >>)

build_expr_name(b, name) ==
    LET a == get_variable_reg_addr(b, name)
    IN  Ok(a.b, Some(a.reg), << >>)

\* binop_operation with the operands exchanged: `rhs op lhs`
binop_operation_swapped(op, lhs, rhs, out) ==
    CASE op = "Add" -> Some(OpBin("Add", rhs, lhs, out))
      [] op = "Sub" -> Some(OpBin("Sub", rhs, lhs, out))
      [] op = "Div" -> Some(OpBin("Div", rhs, lhs, out))
      [] op = "Mul" -> Some(OpBin("Mul", rhs, lhs, out))
      [] op = "Eq" -> Some(OpBin("CmpEq", rhs, lhs, out))
      [] op = "Lt" -> Some(OpBin("CmpLt", rhs, lhs, out))
      [] op = "Lte" -> Some(OpBin("CmpLte", rhs, lhs, out))
      [] op = "Gt" -> Some(OpBin("CmpGt", rhs, lhs, out))
      [] op = "Gte" -> Some(OpBin("CmpGte", rhs, lhs, out))
      [] OTHER -> None

\* build_expr_binop's match on op: the operation pushed, None for `_ => unimplemented!()`
binop_operation(op, lhs, rhs, out) ==
    CASE op = "Add" -> Some(OpBin("Add", lhs, rhs, out))
      [] op = "Sub" -> Some(OpBin("Sub", lhs, rhs, out))
      [] op = "Div" -> Some(OpBin("Div", lhs, rhs, out))
      [] op = "Mul" -> Some(OpBin("Mul", lhs, rhs, out))
      [] op = "Eq" -> Some(OpBin("CmpEq", lhs, rhs, out))
      [] op = "Lt" -> Some(OpBin("CmpLt", lhs, rhs, out))
      [] op = "Lte" -> Some(OpBin("CmpLte", lhs, rhs, out))
      [] op = "Gt" -> Some(OpBin("CmpGt", lhs, rhs, out))
      [] op = "Gte" -> Some(OpBin("CmpGte", lhs, rhs, out))
      [] OTHER -> None

\* push_args without the reversal: the first argument's register pushed first
push_args_in_order(op_returns) == [i \in 1..Len(op_returns) |-> OpPush(op_returns[i])]

\* build_expr_fn_call's `while let Some(op_return) = op_returns.pop()`: last register first
push_args(op_returns) ==
    [i \in 1..Len(op_returns) |-> OpPush(op_returns[Len(op_returns) - i + 1])]

RECURSIVE build_expr(_, _)
RECURSIVE build_block_line(_, _)
RECURSIVE build_block_from(_, _, _, _, _)
RECURSIVE build_args_from(_, _, _, _, _)

\* build_block's loop body after `self.build_block_line(line)?` returned line
build_block_next(line, block, i, ops) ==
    IF line.res # "ok" THEN line
    ELSE build_block_from(line.b, block, i + 1, line.out, ops \o line.ops)

\* the loop of build_block, from line i on, with out and ops as accumulated so far
build_block_from(b, block, i, out, ops) ==
    IF i > Len(block) THEN Ok(b, out, ops)
    ELSE build_block_next(build_block_line(b, block[i]), block, i, ops)

build_block(b, block) == build_block_from(b, block, 1, None, << >>)

\* build_expr_fn_call's loop body after `self.build_expr(arg)?` returned arg
build_args_next(arg, args, i, op_returns, ops) ==
    IF arg.res # "ok" THEN arg
    ELSE build_args_from(arg.b, args, i + 1, Append(op_returns, arg.out[1]), ops \o arg.ops)

\* the loop of build_expr_fn_call over args; out collects op_returns
build_args_from(b, args, i, op_returns, ops) ==
    IF i > Len(args) THEN Ok(b, op_returns, ops)
    ELSE build_args_next(build_expr(b, args[i]), args, i, op_returns, ops)

\* build_expr_fn_call once its arguments are built (a): pushes, Call, Pop of the result
build_fn_call_emit(a, name) ==
    IF a.res # "ok" THEN a
    ELSE LET out == next_free_reg_addr(a.b)
         IN  Ok(out.b, Some(out.reg),
                a.ops \o push_args(a.out) \o << OpCall(Named(name)), OpPop(out.reg) >>)

build_expr_fn_call(b, name, args) ==
    build_fn_call_emit(build_args_from(b, args, 1, << >>, << >>), name)

\* build_assignment_emit binding the name to the register of the right-hand side
\* instead of copying into the name's own register
build_assignment_alias(e, varname) ==
    IF e.res # "ok" THEN e
    ELSE Ok([e.b EXCEPT !.frames[Len(e.b.frames)].variables = (varname :> e.out[1]) @@ @],
            e.out, e.ops)

\* build_expr_assignment once the right-hand side is built (e)
build_assignment_emit(e, varname) ==
    IF e.res # "ok" THEN e
    ELSE LET out == get_variable_reg_addr(e.b, varname)
         IN  Ok(out.b, Some(out.reg), Append(e.ops, OpI2i(e.out[1], out.reg)))

build_expr_assignment(b, varname, expr) == build_assignment_emit(build_expr(b, expr), varname)

\* build_expr_binop once both operands are built (l, r)
build_binop_emit(l, op, r) ==
    IF r.res # "ok" THEN r
    ELSE LET out == next_free_reg_addr(r.b)
             operation == binop_operation(op, l.out[1], r.out[1], out.reg)
         IN  IF operation = None THEN Panic(out.b)
             ELSE Ok(out.b, Some(out.reg), Append(l.ops \o r.ops, operation[1]))

\* build_expr_binop once the left operand is built (l)
build_binop_rhs(l, op, rhs) ==
    IF l.res # "ok" THEN l ELSE build_binop_emit(l, op, build_expr(l.b, rhs))

build_expr_binop(b, lhs, op, rhs) == build_binop_rhs(build_expr(b, lhs), op, rhs)

\* if_branch_result ignoring the block's result
if_branch_zero(block_out, out) == OpLoadI(0, out)

\* build_expr_if's closing of a branch: copy the block's result, or 0, into out
if_branch_result(block_out, out) ==
    IF block_out # None THEN OpI2i(block_out[1], out) ELSE OpLoadI(0, out)

\* build_expr_if once the condition (c) and both blocks (t, f) are built
build_if_emit(out, c, label_true, label_end, label_false, t, f) ==
    IF f.res # "ok" THEN f
    ELSE Ok(f.b, Some(out),
            c.ops
            \o << OpCondBranch(c.out[1], label_true, label_false) >>
            \o << OpLabel(label_true) >> \o t.ops
            \o << if_branch_result(t.out, out), OpJumpI(label_end) >>
            \o << OpLabel(label_false) >> \o f.ops
            \o << if_branch_result(f.out, out), OpJumpI(label_end) >>
            \o << OpLabel(label_end) >>)

\* build_expr_if once the true block is built (t): the false block, if there is one
build_if_false(out, c, label_true, label_end, label_false, t, false_block) ==
    IF t.res # "ok" THEN t
    ELSE build_if_emit(out, c, label_true, label_end, label_false, t,
                       IF false_block # None THEN build_block(t.b, false_block[1])
                       ELSE Ok(t.b, None, << >>))

\* build_expr_if once the condition is built (c): the three labels, the true block
build_if_true(out, c, true_block, false_block) ==
    IF c.res # "ok" THEN c
    ELSE LET label_true == next_free_label(c.b)
             label_end == next_free_label(label_true.b)
             label_false == next_free_label(label_end.b)
         IN  build_if_false(out, c, label_true.label, label_end.label, label_false.label,
                            build_block(label_false.b, true_block), false_block)

\* build_expr_if once `out` is allocated (a)
build_if_cond(a, cond, true_block, false_block) ==
    build_if_true(a.reg, build_expr(a.b, cond), true_block, false_block)

build_expr_if(b, cond, true_block, false_block) ==
    build_if_cond(next_free_reg_addr(b), cond, true_block, false_block)

build_expr(b, expr) ==
    CASE expr.k = "FnCall" -> build_expr_fn_call(b, expr.name, expr.args)
      [] expr.k = "Str" -> Panic(b)
      [] expr.k = "Int" -> build_expr_int(b, expr.val)
      [] expr.k = "Name" -> build_expr_name(b, expr.name)
      [] expr.k = "Boolean" -> Panic(b)
      [] expr.k = "Assignment" -> build_expr_assignment(b, expr.varname, expr.expr)
      [] expr.k = "BinOp" -> build_expr_binop(b, expr.lhs, expr.op, expr.rhs)
      [] expr.k = "If" -> build_expr_if(b, expr.cond, expr.true_block, expr.false_block)
      [] expr.k = "ParenExpr" -> Panic(b)

build_block_line(b, line) ==
    CASE line.k = "Expr" -> build_expr(b, line.expr)
      [] line.k = "Loop" -> Panic(b)
      [] line.k = "Break" -> Panic(b)

RECURSIVE build_fn_def_args(_, _, _, _)
\* build_fn_def's loop body once the parameter's register is found (arg_reg)
build_fn_def_arg(arg_reg, args, i, ops) ==
    build_fn_def_args(arg_reg.b, args, i + 1, Append(ops, OpPop(arg_reg.reg)))

\* the loop of build_fn_def over args: bind each parameter, Pop into its register
build_fn_def_args(b, args, i, ops) ==
    IF i > Len(args) THEN Ok(b, None, ops)
    ELSE build_fn_def_arg(get_variable_reg_addr(b, args[i]), args, i, ops)

\* variant of build_fn_def_emit: a body without a result register is accepted
build_fn_def_emit_unchecked(fn_end_label, a, blk) ==
    IF blk.res # "ok" THEN blk
    ELSE Ok([blk.b EXCEPT !.frames = SubSeq(@, 1, Len(@) - 1)], None,
            a.ops \o blk.ops \o << OpPush(IF blk.out = None THEN Arp(0) ELSE blk.out[1]),
                                    OpReturn, OpLabel(fn_end_label) >>)

\* build_fn_def once the body is built (blk): an Err return leaves the scope pushed
build_fn_def_emit(fn_end_label, a, blk) ==
    IF blk.res # "ok" THEN blk
    ELSE IF blk.out = None THEN Err(blk.b)
    ELSE Ok([blk.b EXCEPT !.frames = SubSeq(@, 1, Len(@) - 1)], None,
            a.ops \o blk.ops \o << OpPush(blk.out[1]), OpReturn, OpLabel(fn_end_label) >>)

\* build_fn_def once the parameters are bound (a)
build_fn_def_block(fn_end_label, a, block) ==
    build_fn_def_emit(fn_end_label, a, build_block(a.b, block))

\* variant of build_fn_def_frame: no JumpI over the function's body
build_fn_def_frame_fallthrough(l, name, args, block) ==
    build_fn_def_block(l.label,
                       build_fn_def_args([l.b EXCEPT !.frames = Append(@, NewScope)], args, 1,
                                         << OpLabel(Named(name)) >>),
                       block)

\* build_fn_def once fn_end_label is allocated (l): the new Scope, the parameters
build_fn_def_frame(l, name, args, block) ==
    build_fn_def_block(l.label,
                       build_fn_def_args([l.b EXCEPT !.frames = Append(@, NewScope)], args, 1,
                                         << OpJumpI(l.label), OpLabel(Named(name)) >>),
                       block)

build_fn_def(b, name, args, block) == build_fn_def_frame(next_free_label(b), name, args, block)

build_statement(b, stmt) ==
    CASE stmt.k = "FnDef" -> build_fn_def(b, stmt.name, stmt.args, stmt.block)
      [] stmt.k = "BlockLine" -> build_block_line(b, stmt.line)

RECURSIVE build_program_from(_, _, _, _, _)
\* build_program's loop body after `self.build_statement(stmt)?` returned stmt
build_program_next(stmt, statements, i, ins) ==
    IF stmt.res # "ok" THEN stmt
    ELSE build_program_from(stmt.b, statements, i + 1, stmt.out, ins \o stmt.ops)

\* the loop of build_program, from statement i on
build_program_from(b, statements, i, out, ins) ==
    IF i > Len(statements) THEN Ok(b, out, ins)
    ELSE build_program_next(build_statement(b, statements[i]), statements, i, ins)

build_program(b, program) == build_program_from(b, program, 1, None, << >>)

\* build(): the result of build_program, wrapped into IR::new(ops, out) on success
build(b, program) == build_program(b, program)

(***************************************************************************)
(* i32 arithmetic as the VM's `+ - * /` perform it.  An overflow of + - *  *)
(* panics in a build with overflow checks and wraps modulo 2^32 in one     *)
(* without; `/` panics on a zero divisor and on i32::MIN / -1 in both.     *)
(* The operators below never leave the i32 range in an intermediate value. *)
(***************************************************************************)
add_overflows(a, b) == (b > 0 /\ a > I32Max - b) \/ (b < 0 /\ a < I32Min - b)

wrapping_add(a, b) ==
    IF b > 0 /\ a > I32Max - b THEN (a - I32Max - 1) + (b - I32Max - 1)
    ELSE IF b < 0 /\ a < I32Min - b THEN (a + I32Max + 1) + (b + I32Max + 1)
    ELSE a + b

sub_overflows(a, b) == (b < 0 /\ a > I32Max + b) \/ (b > 0 /\ a < I32Min + b)

wrapping_sub(a, b) ==
    IF b < 0 /\ a > I32Max + b THEN (a - I32Max - 1) - (b + I32Max + 1)
    ELSE IF b > 0 /\ a < I32Min + b THEN (a + I32Max + 1) - (b - I32Max - 1)
    ELSE a - b

\* the low 32 bits of the product, as i32, from 16-bit limbs of the operands
wrapping_mul(a, b) ==
    LET ah == a \div 65536
        al == a % 65536
        bh == b \div 65536
        bl == b % 65536
        t1 == (al \div 256) * bl
        t0 == (al % 256) * bl
        low == (t1 % 256) * 256 + t0
        carry == (t1 \div 256) + (low \div 65536)
        hi == (((ah * bl) % 65536) + ((al * bh) % 65536) + carry) % 65536
    IN  (IF hi >= 32768 THEN hi - 65536 ELSE hi) * 65536 + (low % 65536)

\* the quotient rounded toward zero; b is neither 0 nor (with a = i32::MIN) -1
trunc_div(a, b) ==
    IF b = 1 THEN a
    ELSE IF b = -1 THEN 0 - a
    ELSE IF b = I32Min THEN (IF a = I32Min THEN 1 ELSE 0)
    ELSE LET bb == IF b < 0 THEN 0 - b ELSE b
             m == 0 - (a + 1)
             mag == IF a >= 0 THEN a \div bb
                    ELSE (m \div bb) + (IF m % bb = bb - 1 THEN 1 ELSE 0)
         IN  IF (a < 0) # (b < 0) THEN 0 - mag ELSE mag

mul_overflows(a, b) ==
    IF a = 0 THEN FALSE
    ELSE IF a = -1 THEN b = I32Min
    ELSE trunc_div(wrapping_mul(a, b), a) # b

Value(v) == [panic |-> FALSE, val |-> v]
Panics == [panic |-> TRUE, val |-> 0]
OrOverflow(overflows, v) == IF overflows THEN {Panics, Value(v)} ELSE {Value(v)}

\* what `lhs_val <op> rhs_val` of an arithmetic or comparison arm can evaluate to
add_outcomes(l, r) == OrOverflow(add_overflows(l, r), wrapping_add(l, r))
sub_outcomes(l, r) == OrOverflow(sub_overflows(l, r), wrapping_sub(l, r))
mul_outcomes(l, r) == OrOverflow(mul_overflows(l, r), wrapping_mul(l, r))
\* variant of div_outcomes: a division by 0 gives 0
div_outcomes_zero(l, r) ==
    IF l = I32Min /\ r = -1 THEN {Panics}
    ELSE IF r = 0 THEN {Value(0)} ELSE {Value(trunc_div(l, r))}
div_outcomes(l, r) ==
    IF r = 0 \/ (l = I32Min /\ r = -1) THEN {Panics} ELSE {Value(trunc_div(l, r))}
cmp_outcomes(name, l, r) ==
    LET holds == CASE name = "CmpEq" -> l = r
                   [] name = "CmpLt" -> l < r
                   [] name = "CmpLte" -> l <= r
                   [] name = "CmpGt" -> l > r
                   [] name = "CmpGte" -> l >= r
    IN  {Value(IF holds THEN 1 ELSE 0)}

(***************************************************************************)
(* VM.  A register file (vm.rs Scope: [i32; STACK_SIZE], all 0 at first)   *)
(* is held as its shortest prefix that contains every non-zero slot: slot  *)
(* n is regs[n + 1], and 0 beyond the prefix.  Index STACK_SIZE and above  *)
(* is out of the programs' reach: a scope of the model allocates fewer     *)
(* than 40 registers.                                                     *)
(***************************************************************************)
NewRegisters == << >>

slot_get(regs, n) == IF n < Len(regs) THEN regs[n + 1] ELSE 0

slot_set(regs, n, value) ==
    LET len == IF n + 1 > Len(regs) THEN n + 1 ELSE Len(regs)
        full == [i \in 1..len |-> IF i = n + 1 THEN value
                                  ELSE IF i <= Len(regs) THEN regs[i] ELSE 0]
        nonzero == {i \in 1..len : full[i] # 0}
    IN  SubSeq(full, 1, IF nonzero = {} THEN 0 ELSE CHOOSE i \in nonzero : \A j \in nonzero : j <= i)

\* frame_of resolving every register in the first frame
frame_of_global(fr, reg) == 1

\* frame_of resolving every register in the topmost frame
frame_of_top(fr, reg) == Len(fr)

\* the frame a register resolves to: Arp the last (topmost), Global the first
frame_of(fr, reg) == IF reg.class = "Arp" THEN Len(fr) ELSE 1

reg_get(fr, reg) == slot_get(fr[frame_of(fr, reg)], reg.addr)

reg_set(fr, reg, value) == [fr EXCEPT ![frame_of(fr, reg)] = slot_set(@, reg.addr, value)]

RECURSIVE label_map_first(_, _, _)
\* variant of label_map_from: the first Label of a label keeps its entry
label_map_first(instructions, i, map) ==
    IF i >= Len(instructions) THEN map
    ELSE LET ins == instructions[i + 1]
         IN  label_map_first(instructions, i + 1,
                             IF ins.op = "Label" /\ ins.label \notin DOMAIN map
                             THEN [l \in DOMAIN map \cup {ins.label} |->
                                      IF l = ins.label THEN i ELSE map[l]]
                             ELSE map)

RECURSIVE label_map_from(_, _, _)
\* the loop of VM::new from index i (0-based) on: insert overwrites an earlier entry
label_map_from(instructions, i, map) ==
    IF i >= Len(instructions) THEN map
    ELSE LET ins == instructions[i + 1]
         IN  label_map_from(instructions, i + 1,
                            IF ins.op = "Label"
                            THEN [l \in DOMAIN map \cup {ins.label} |->
                                     IF l = ins.label THEN i ELSE map[l]]
                            ELSE map)

\* vm_this: ir.return_reg.map(|reg| vm.reg_get(&reg))
Result == IF ir.return_reg = None THEN None ELSE Some(reg_get(frames, ir.return_reg[1]))

Fetch(name) ==
    /\ vm_state = "running"
    /\ ip < Len(ir.instructions)
    /\ ir.instructions[ip + 1].op = name

cur == ir.instructions[ip + 1]

unchanged_input == UNCHANGED <<ast, builder, build_result, ir, label_map>>

\* what build() leaves behind, r being its result
build_done(r) ==
    /\ builder' = r.b
    /\ build_result' = r.res
    /\ ir' = IF r.res = "ok" THEN [instructions |-> r.ops, return_reg |-> r.out] ELSE ir

Build ==
    /\ build_result = "none"
    /\ build_done(build(builder, ast))
    /\ UNCHANGED <<ast, vm_state, ip, stack, label_map, frames, return_ips>>

VMNew ==
    /\ build_result \in {"ok", "given"}
    /\ vm_state = "none"
    /\ label_map' = label_map_from(ir.instructions, 0, << >>)
    /\ stack' = << >>
    /\ ip' = 0
    /\ frames' = << NewRegisters >>
    /\ return_ips' = << >>
    /\ vm_state' = "running"
    /\ UNCHANGED <<ast, builder, build_result, ir>>

\* StepHalt breaking only once ip is past the end: `self.ip > self.ir.instructions.len()`
StepHaltPastEnd ==
    /\ vm_state = "running"
    /\ ip > Len(ir.instructions)
    /\ vm_state' = "done"
    /\ UNCHANGED <<ip, stack, frames, return_ips>>
    /\ unchanged_input

\* run(): `if self.ip >= self.ir.instructions.len() { break; }`
StepHalt ==
    /\ vm_state = "running"
    /\ ip >= Len(ir.instructions)
    /\ vm_state' = "done"
    /\ UNCHANGED <<ip, stack, frames, return_ips>>
    /\ unchanged_input

StepLabel ==
    /\ Fetch("Label")
    /\ ip' = ip + 1
    /\ UNCHANGED <<vm_state, stack, frames, return_ips>>
    /\ unchanged_input

\* StepCall starting the callee on a copy of the caller's registers
StepCallCopiesFrame ==
    /\ Fetch("Call")
    /\ return_ips' = Append(return_ips, ip)
    /\ frames' = Append(frames, frames[Len(frames)])
    /\ IF cur.label \in DOMAIN label_map
       THEN ip' = label_map[cur.label] + 1 /\ UNCHANGED vm_state
       ELSE vm_state' = "panic" /\ UNCHANGED ip
    /\ UNCHANGED stack
    /\ unchanged_input

StepCall ==
    /\ Fetch("Call")
    /\ return_ips' = Append(return_ips, ip)
    /\ frames' = Append(frames, NewRegisters)
    /\ IF cur.label \in DOMAIN label_map
       THEN ip' = label_map[cur.label] + 1 /\ UNCHANGED vm_state
       ELSE vm_state' = "panic" /\ UNCHANGED ip
    /\ UNCHANGED stack
    /\ unchanged_input

\* StepReturn leaving the callee's frame on the frame stack
StepReturnKeepsFrame ==
    /\ Fetch("Return")
    /\ IF return_ips = << >>
       THEN vm_state' = "panic" /\ UNCHANGED <<ip, return_ips, frames>>
       ELSE /\ ip' = return_ips[Len(return_ips)] + 1
            /\ return_ips' = SubSeq(return_ips, 1, Len(return_ips) - 1)
            /\ UNCHANGED <<vm_state, frames>>
    /\ UNCHANGED stack
    /\ unchanged_input

\* variant of StepReturn: the frame is popped before the return address is looked for
StepReturnPopsFrameFirst ==
    /\ Fetch("Return")
    /\ frames' = SubSeq(frames, 1, Len(frames) - 1)
    /\ IF return_ips = << >>
       THEN vm_state' = "panic" /\ UNCHANGED <<ip, return_ips>>
       ELSE /\ ip' = return_ips[Len(return_ips)] + 1
            /\ return_ips' = SubSeq(return_ips, 1, Len(return_ips) - 1)
            /\ UNCHANGED vm_state
    /\ UNCHANGED stack
    /\ unchanged_input

StepReturn ==
    /\ Fetch("Return")
    /\ IF return_ips = << >>
       THEN vm_state' = "panic" /\ UNCHANGED <<ip, return_ips, frames>>
       ELSE /\ ip' = return_ips[Len(return_ips)] + 1
            /\ return_ips' = SubSeq(return_ips, 1, Len(return_ips) - 1)
            /\ frames' = SubSeq(frames, 1, Len(frames) - 1)
            /\ UNCHANGED vm_state
    /\ UNCHANGED stack
    /\ unchanged_input

StepPush ==
    /\ Fetch("Push")
    /\ stack' = Append(stack, reg_get(frames, cur.reg))
    /\ ip' = ip + 1
    /\ UNCHANGED <<vm_state, frames, return_ips>>
    /\ unchanged_input

\* variant of StepPop: the value is read and stays on the stack
StepPopPeeks ==
    /\ Fetch("Pop")
    /\ IF stack = << >>
       THEN vm_state' = "panic" /\ UNCHANGED <<ip, frames>>
       ELSE /\ frames' = reg_set(frames, cur.reg, stack[Len(stack)])
            /\ ip' = ip + 1
            /\ UNCHANGED vm_state
    /\ UNCHANGED <<stack, return_ips>>
    /\ unchanged_input

\* variant of StepPop: a Pop on an empty stack writes 0 and goes on
StepPopDefaultsZero ==
    /\ Fetch("Pop")
    /\ IF stack = << >>
       THEN frames' = reg_set(frames, cur.reg, 0) /\ UNCHANGED stack
       ELSE /\ stack' = SubSeq(stack, 1, Len(stack) - 1)
            /\ frames' = reg_set(frames, cur.reg, stack[Len(stack)])
    /\ ip' = ip + 1
    /\ UNCHANGED <<vm_state, return_ips>>
    /\ unchanged_input

StepPop ==
    /\ Fetch("Pop")
    /\ IF stack = << >>
       THEN vm_state' = "panic" /\ UNCHANGED <<ip, stack, frames>>
       ELSE /\ stack' = SubSeq(stack, 1, Len(stack) - 1)
            /\ frames' = reg_set(frames, cur.reg, stack[Len(stack)])
            /\ ip' = ip + 1
            /\ UNCHANGED vm_state
    /\ UNCHANGED return_ips
    /\ unchanged_input

\* an arm `let lhs_val = ..; let rhs_val = ..; self.reg_set(*out, lhs_val <op> rhs_val)`
\* whose computation has the given outcomes
write_outcome(outcomes) ==
    /\ \E o \in outcomes :
          IF o.panic
          THEN vm_state' = "panic" /\ UNCHANGED <<ip, frames>>
          ELSE /\ frames' = reg_set(frames, cur.out, o.val)
               /\ ip' = ip + 1
               /\ UNCHANGED vm_state
    /\ UNCHANGED <<stack, return_ips>>
    /\ unchanged_input

StepAdd ==
    /\ Fetch("Add")
    /\ write_outcome(add_outcomes(reg_get(frames, cur.lhs), reg_get(frames, cur.rhs)))

StepSub ==
    /\ Fetch("Sub")
    /\ write_outcome(sub_outcomes(reg_get(frames, cur.lhs), reg_get(frames, cur.rhs)))

StepMul ==
    /\ Fetch("Mul")
    /\ write_outcome(mul_outcomes(reg_get(frames, cur.lhs), reg_get(frames, cur.rhs)))

StepDiv ==
    /\ Fetch("Div")
    /\ write_outcome(div_outcomes(reg_get(frames, cur.lhs), reg_get(frames, cur.rhs)))

StepLoadI ==
    /\ Fetch("LoadI")
    /\ write_outcome({Value(cur.val)})

StepI2i ==
    /\ Fetch("I2i")
    /\ frames' = reg_set(frames, cur.rhs, reg_get(frames, cur.lhs))
    /\ ip' = ip + 1
    /\ UNCHANGED <<vm_state, stack, return_ips>>
    /\ unchanged_input

\* variant of jump_to: ip stays at the label's index, without the loop's increment
jump_to_label(label) ==
    /\ IF label \in DOMAIN label_map
       THEN ip' = label_map[label] /\ UNCHANGED vm_state
       ELSE vm_state' = "panic" /\ UNCHANGED ip
    /\ UNCHANGED <<stack, frames, return_ips>>
    /\ unchanged_input

\* `self.ip = self.label_map[label]`, then the loop's `self.ip += 1`
jump_to(label) ==
    /\ IF label \in DOMAIN label_map
       THEN ip' = label_map[label] + 1 /\ UNCHANGED vm_state
       ELSE vm_state' = "panic" /\ UNCHANGED ip
    /\ UNCHANGED <<stack, frames, return_ips>>
    /\ unchanged_input

StepJumpI ==
    /\ Fetch("JumpI")
    /\ jump_to(cur.label)

StepCmpEq ==
    /\ Fetch("CmpEq")
    /\ write_outcome(cmp_outcomes("CmpEq", reg_get(frames, cur.lhs), reg_get(frames, cur.rhs)))

StepCmpLt ==
    /\ Fetch("CmpLt")
    /\ write_outcome(cmp_outcomes("CmpLt", reg_get(frames, cur.lhs), reg_get(frames, cur.rhs)))

StepCmpLte ==
    /\ Fetch("CmpLte")
    /\ write_outcome(cmp_outcomes("CmpLte", reg_get(frames, cur.lhs), reg_get(frames, cur.rhs)))

StepCmpGt ==
    /\ Fetch("CmpGt")
    /\ write_outcome(cmp_outcomes("CmpGt", reg_get(frames, cur.lhs), reg_get(frames, cur.rhs)))

StepCmpGte ==
    /\ Fetch("CmpGte")
    /\ write_outcome(cmp_outcomes("CmpGte", reg_get(frames, cur.lhs), reg_get(frames, cur.rhs)))

\* branch_label taking every non-zero value for true
branch_label_nonzero(val, label_true, label_false) == IF val # 0 THEN label_true ELSE label_false

\* the label CondBranch takes for the value read from cond
branch_label(val, label_true, label_false) == IF val = 1 THEN label_true ELSE label_false

StepCondBranch ==
    /\ Fetch("CondBranch")
    /\ jump_to(branch_label(reg_get(frames, cur.cond), cur.label_true, cur.label_false))

(***************************************************************************)
(* The programs compiled and run: the programs of the tests of vm.rs and   *)
(* ir_builder.rs and of the specification's examples, their literals,      *)
(* operators, arities and shapes drawn from the bounded sets.              *)
(***************************************************************************)
Lits == (-MaxLit..MaxLit) \cup {I32Min, I32Max}
SmallLits == 0..MaxLit
CmpOps == {"Eq", "Lt", "Gt", "Lte", "Gte"}
ArithOps == {"Add", "Sub", "Mul", "Div"}
CondKinds == {"Int"} \cup CmpOps
CondLits == -1..MaxLit
TrueSels == 0..MaxLit
FalseSels == -1..MaxLit

\* names of parameters and of functions; MaxArgs and MaxTrail stay below their lengths
ParamNames == << "p0", "p1", "p2", "p3", "p4", "p5" >>
LeadNames == << "g1", "g2", "g3", "g4" >>
TrailNames == << "h1", "h2", "h3", "h4" >>

\* "{a} {op} {b};"
ArithProgram(a, op, b) == << StmtExpr(AstBinOp(AstInt(a), op, AstInt(b))) >>

\* the first n statements of "a = v1; b = v2; b = v3; a = b; b = v1; a;"
AssignProgram(v1, v2, v3, n) ==
    SubSeq(<< StmtExpr(AstAssignment("a", AstInt(v1))),
              StmtExpr(AstAssignment("b", AstInt(v2))),
              StmtExpr(AstAssignment("b", AstInt(v3))),
              StmtExpr(AstAssignment("a", AstName("b"))),
              StmtExpr(AstAssignment("b", AstInt(v1))),
              StmtExpr(AstName("a")) >>, 1, n)

\* a block that records its execution in `marker` and ends in the literal `value`
MarkedBlock(marker, value) ==
    << LineExpr(AstAssignment(marker, AstInt(1))), LineExpr(AstInt(value)) >>

TrueValue(tsel) == 2 * tsel + 1
FalseValue(fsel) == 2 * fsel + 2

\* the condition `a` (kind "Int") or `a kind b`
CondExpr(kind, a, b) == IF kind = "Int" THEN AstInt(a) ELSE AstBinOp(AstInt(a), kind, AstInt(b))

\* "if (cond) { T } else { F }": T empty for tsel = 0, else "t = 1; TrueValue;";
\* no else for fsel = -1, F empty for fsel = 0, else "f = 1; FalseValue;"
IfProgram(cond, tsel, fsel) ==
    << StmtExpr(AstIf(cond,
                      IF tsel = 0 THEN << >> ELSE MarkedBlock("t", TrueValue(tsel)),
                      IF fsel = -1 THEN None
                      ELSE IF fsel = 0 THEN Some(<< >>)
                      ELSE Some(MarkedBlock("f", FalseValue(fsel))))) >>

\* "fn f(p0, .., p{np-1}) { p{sel}; }  f(base + 1, .., base + na);"  (body "7;" for np = 0)
CallProgram(np, sel, na, base) ==
    << StmtFnDef("f", SubSeq(ParamNames, 1, np),
                 << LineExpr(IF np = 0 THEN AstInt(7) ELSE AstName(ParamNames[sel + 1])) >>),
       StmtExpr(AstFnCall("f", [i \in 1..na |-> AstInt(base + i)])) >>

\* vm.rs test_fn_call: "fn addfive(x) { x + 5; } x = v; addfive(x);"
AddFiveProgram(v) ==
    << StmtFnDef("addfive", << "x" >>,
                 << LineExpr(AstBinOp(AstName("x"), "Add", AstInt(5))) >>),
       StmtExpr(AstAssignment("x", AstInt(v))),
       StmtExpr(AstFnCall("addfive", << AstName("x") >>)) >>

\* vm.rs test_nested_calls, ending in "half(powadd(u, v));" or in "powadd(u, v);"
NestedProgram(u, v, half) ==
    LET powadd == AstFnCall("powadd", << AstInt(u), AstInt(v) >>)
    IN  << StmtFnDef("powadd", << "a", "b" >>,
                     << LineExpr(AstBinOp(AstFnCall("pow", << AstName("a") >>), "Add",
                                          AstFnCall("pow", << AstName("b") >>))) >>),
           StmtFnDef("pow", << "a" >>, << LineExpr(AstBinOp(AstName("a"), "Mul", AstName("a"))) >>),
           StmtFnDef("half", << "x" >>,
                     << LineExpr(AstAssignment("out", AstBinOp(AstName("x"), "Div",
                                                               AstFnCall("two", << >>)))),
                        LineExpr(AstName("out")) >>),
           StmtFnDef("two", << >>, << LineExpr(AstInt(2)) >>),
           StmtExpr(IF half THEN AstFnCall("half", << powadd >>) ELSE powadd) >>

\* vm.rs test_fib: "fn fib(a, b, n) { sum = a + b; if (n > 1) { fib(b, sum, n - 1); }
\*                  else { sum; } }  fib(1, 1, n);"
FibProgram(n) ==
    << StmtFnDef("fib", << "a", "b", "n" >>,
                 << LineExpr(AstAssignment("sum", AstBinOp(AstName("a"), "Add", AstName("b")))),
                    LineExpr(AstIf(AstBinOp(AstName("n"), "Gt", AstInt(1)),
                                   << LineExpr(AstFnCall("fib",
                                          << AstName("b"), AstName("sum"),
                                             AstBinOp(AstName("n"), "Sub", AstInt(1)) >>)) >>,
                                   Some(<< LineExpr(AstName("sum")) >>))) >>),
       StmtExpr(AstFnCall("fib", << AstInt(1), AstInt(1), AstInt(n) >>)) >>

\* the first n statements of "y = v; x; x + y;": x is read and never assigned
UndefTopProgram(v, n) ==
    SubSeq(<< StmtExpr(AstAssignment("y", AstInt(v))),
              StmtExpr(AstName("x")),
              StmtExpr(AstBinOp(AstName("x"), "Add", AstName("y"))) >>, 1, n)

\* "fn f(a) { r = x; x = a; r; }  u = w; f(v1); f(v2);": f reads x before it assigns it
UndefFnProgram(w, v1, v2) ==
    << StmtFnDef("f", << "a" >>,
                 << LineExpr(AstAssignment("r", AstName("x"))),
                    LineExpr(AstAssignment("x", AstName("a"))),
                    LineExpr(AstName("r")) >>),
       StmtExpr(AstAssignment("u", AstInt(w))),
       StmtExpr(AstFnCall("f", << AstInt(v1) >>)),
       StmtExpr(AstFnCall("f", << AstInt(v2) >>)) >>

\* `lead` function definitions, the expression statements "1; .. k;", `trail` definitions
TrailProgram(lead, k, trail) ==
    [i \in 1..lead |-> StmtFnDef(LeadNames[i], << >>, << LineExpr(AstInt(i)) >>)]
    \o [i \in 1..k |-> StmtExpr(AstInt(i))]
    \o [i \in 1..trail |-> StmtFnDef(TrailNames[i], << >>, << LineExpr(AstInt(i)) >>)]

\* vm.rs test_loop_and_break: "a = start; loop { if (a >= limit) { break; } a = a + 1; } a;"
LoopProgram(start, limit) ==
    << StmtExpr(AstAssignment("a", AstInt(start))),
       StmtBlockLine(LineLoop(<< LineExpr(AstIf(AstBinOp(AstName("a"), "Gte", AstInt(limit)),
                                               << LineBreak >>, None)),
                                 LineExpr(AstAssignment("a", AstBinOp(AstName("a"), "Add",
                                                                       AstInt(1)))) >>)),
       StmtExpr(AstName("a")) >>

LoopLimits == {MaxLit, 10}

\* a break outside any loop: "v; break;" (place 0), "v; if (1) { break; }" (place 1),
\* "fn f() { break; v; } v;" (place 2)
BreakProgram(v, place) ==
    CASE place = 0 -> << StmtExpr(AstInt(v)), StmtBlockLine(LineBreak) >>
      [] place = 1 -> << StmtExpr(AstInt(v)),
                         StmtExpr(AstIf(AstInt(1), << LineBreak >>, None)) >>
      [] place = 2 -> << StmtFnDef("f", << >>, << LineBreak, LineExpr(AstInt(v)) >>),
                         StmtExpr(AstInt(v)) >>

\* "fn f() { body } f();" with the body: empty (kind 0), "v;" (1), "if (v) {}" (2),
\* "if (v) {} else {}" (3), "v; if (v) {}" (4), "if (v) {} v + 1;" (5)
FnBody(kind, v) ==
    CASE kind = 0 -> << >>
      [] kind = 1 -> << LineExpr(AstInt(v)) >>
      [] kind = 2 -> << LineExpr(AstIf(AstInt(v), << >>, None)) >>
      [] kind = 3 -> << LineExpr(AstIf(AstInt(v), << >>, Some(<< >>))) >>
      [] kind = 4 -> << LineExpr(AstInt(v)), LineExpr(AstIf(AstInt(v), << >>, None)) >>
      [] kind = 5 -> << LineExpr(AstIf(AstInt(v), << >>, None)), LineExpr(AstInt(v + 1)) >>

BodyKinds == 0..5

BodyProgram(kind, v) ==
    << StmtFnDef("f", << >>, FnBody(kind, v)), StmtExpr(AstFnCall("f", << >>)) >>

\* a name defined twice, called before, between and after the definitions:
\* "a = f(); fn f() { v1; } b = f(); fn f() { v2; } c = f(); c;"
RedefProgram(v1, v2) ==
    << StmtExpr(AstAssignment("a", AstFnCall("f", << >>))),
       StmtFnDef("f", << >>, << LineExpr(AstInt(v1)) >>),
       StmtExpr(AstAssignment("b", AstFnCall("f", << >>))),
       StmtFnDef("f", << >>, << LineExpr(AstInt(v2)) >>),
       StmtExpr(AstAssignment("c", AstFnCall("f", << >>))),
       StmtExpr(AstName("c")) >>

\* a call with a surplus argument, then one with a missing argument:
\* "fn f(p0, p1) { p{sel}; } f(base + 1, base + 2, base + 3); f(base + 4);"
StaleArgProgram(base, sel) ==
    << StmtFnDef("f", << "p0", "p1" >>, << LineExpr(AstName(ParamNames[sel + 1])) >>),
       StmtExpr(AstFnCall("f", << AstInt(base + 1), AstInt(base + 2), AstInt(base + 3) >>)),
       StmtExpr(AstFnCall("f", << AstInt(base + 4) >>)) >>

\* a call of a function that no statement defines: "v; g(); v + 1;"
UndefCallProgram(v) ==
    << StmtExpr(AstInt(v)), StmtExpr(AstFnCall("g", << >>)), StmtExpr(AstInt(v + 1)) >>

\* an operand that the other operand assigns: "a = v1; a op (a = v2);"
EvalOrderProgram(v1, op, v2) ==
    << StmtExpr(AstAssignment("a", AstInt(v1))),
       StmtExpr(AstBinOp(AstName("a"), op, AstAssignment("a", AstInt(v2)))) >>

\* ifs inside the blocks of an if, after a function definition:
\* "fn f() { 5; } if (c1) { if (c2) { 1; } else { 2; } } else { if (c2) { 3; } }"
NestedIfProgram(c1, c2) ==
    << StmtFnDef("f", << >>, << LineExpr(AstInt(5)) >>),
       StmtExpr(AstIf(AstInt(c1),
                      << LineExpr(AstIf(AstInt(c2), << LineExpr(AstInt(1)) >>,
                                        Some(<< LineExpr(AstInt(2)) >>))) >>,
                      Some(<< LineExpr(AstIf(AstInt(c2), << LineExpr(AstInt(3)) >>, None)) >>))) >>

\* a function that reads and assigns a name that is a top-level variable as well:
\* "x = v; fn f() { y = x; x = w; y + x; } r = f(); x;"
ShadowProgram(v, w) ==
    << StmtExpr(AstAssignment("x", AstInt(v))),
       StmtFnDef("f", << >>,
                 << LineExpr(AstAssignment("y", AstName("x"))),
                    LineExpr(AstAssignment("x", AstInt(w))),
                    LineExpr(AstBinOp(AstName("y"), "Add", AstName("x"))) >>),
       StmtExpr(AstAssignment("r", AstFnCall("f", << >>))),
       StmtExpr(AstName("x")) >>

Programs ==
    \/ \E a \in Lits, b \in Lits, op \in Ops : ast = ArithProgram(a, op, b)
    \/ \E v1 \in SmallLits, v2 \in SmallLits, v3 \in SmallLits, n \in 0..6 :
          ast = AssignProgram(v1, v2, v3, n)
    \/ \E kind \in CondKinds, a \in CondLits, b \in CondLits,
          tsel \in TrueSels, fsel \in FalseSels :
          ast = IfProgram(CondExpr(kind, a, b), tsel, fsel)
    \/ \E np \in 0..MaxArgs, na \in 0..MaxArgs, base \in SmallLits :
          \E sel \in 0..(IF np = 0 THEN 0 ELSE np - 1) : ast = CallProgram(np, sel, na, base)
    \/ \E v \in SmallLits : ast = AddFiveProgram(v)
    \/ \E u \in 0..(MaxLit + 2), v \in 0..(MaxLit + 2), half \in BOOLEAN :
          ast = NestedProgram(u, v, half)
    \/ \E n \in 1..MaxFib : ast = FibProgram(n)
    \/ \E v \in SmallLits, n \in 1..3 : ast = UndefTopProgram(v, n)
    \/ \E w \in 1..(MaxLit + 1), v1 \in 1..(MaxLit + 1), v2 \in 1..(MaxLit + 1) :
          ast = UndefFnProgram(w, v1, v2)
    \/ \E lead \in 0..MaxTrail, k \in 0..2, trail \in 0..MaxTrail :
          ast = TrailProgram(lead, k, trail)
    \/ \E start \in SmallLits, limit \in LoopLimits : ast = LoopProgram(start, limit)
    \/ \E v \in SmallLits, place \in 0..2 : ast = BreakProgram(v, place)
    \/ \E kind \in BodyKinds, v \in SmallLits : ast = BodyProgram(kind, v)
    \/ \E v1 \in SmallLits, v2 \in SmallLits : ast = RedefProgram(v1, v2)
    \/ \E base \in SmallLits, sel \in 0..1 : ast = StaleArgProgram(base, sel)
    \/ \E v \in SmallLits : ast = UndefCallProgram(v)
    \/ \E v1 \in SmallLits, v2 \in SmallLits, op \in {"Add", "Sub"} :
          ast = EvalOrderProgram(v1, op, v2)
    \/ \E c1 \in 0..1, c2 \in 0..1 : ast = NestedIfProgram(c1, c2)
    \/ \E v \in 1..(MaxLit + 1), w \in 1..(MaxLit + 1) : ast = ShadowProgram(v, w)

\* operations that fault where nothing precedes them but a LoadI into Global(0): no
\* Label in the stream, nothing on the operand stack, no return address, Global(1) is 0
FaultOps ==
    {OpJumpI(Numbered(0)), OpCall(Named("f")), OpReturn, OpPop(Global(0)),
     OpBin("Div", Global(0), Global(1), Global(0)),
     OpCondBranch(Global(0), Numbered(0), Numbered(0))}

\* IR handed to VM::new as written by a caller, not produced by the builder:
\* labels reached by falling through, a label defined twice, jumps to labels that
\* do not exist, Return and Pop with nothing to take, a function that reads and
\* writes Global registers and top-level code that reads and writes Arp registers
GivenIRs ==
    { [instructions |-> << OpLoadI(v, Global(0)), OpLabel(Numbered(0)),
                           OpI2i(Global(0), Global(1)), OpLabel(Named("f")) >>,
       return_reg |-> Some(Global(1))] : v \in SmallLits }
    \cup
    { [instructions |-> << OpLoadI(v, Global(0)), OpJumpI(Numbered(0)),
                           OpLabel(Numbered(0)), OpLoadI(v + 1, Global(0)), OpJumpI(Numbered(1)),
                           OpLabel(Numbered(0)), OpLoadI(v + 2, Global(0)),
                           OpLabel(Numbered(1)) >>,
       return_reg |-> Some(Global(0))] : v \in SmallLits }
    \cup
    { [instructions |-> << OpLoadI(v, Global(0)),
                           OpCondBranch(Global(0), Numbered(0), Numbered(1)),
                           OpLabel(Numbered(1)) >>,
       return_reg |-> None] : v \in SmallLits }
    \cup
    { [instructions |-> << i >>, return_reg |-> None] :
         i \in {OpJumpI(Numbered(0)), OpCall(Named("f")), OpReturn, OpPop(Global(0))} }
    \cup
    { [instructions |-> << OpLoadI(v + 1, Global(0)), f, OpLoadI(v + 2, Global(0)) >>,
       return_reg |-> Some(Global(0))] : v \in SmallLits, f \in FaultOps }
    \cup
    { [instructions |-> << OpLoadI(v + 1, Arp(0)), OpJumpI(Numbered(0)),
                           OpLabel(Named("f")), OpLoadI(v + 2, Arp(0)),
                           OpI2i(Global(0), Arp(1)), OpLoadI(v + 3, Global(1)),
                           OpReturn, OpLabel(Numbered(0)),
                           OpCall(Named("f")), OpI2i(Arp(1), Global(2)) >>,
       return_reg |-> Some(Global(1))] : v \in SmallLits }

\* the caller compiles a program: IRBuilder::new(), no IR yet
FromSource ==
    /\ Programs
    /\ build_result = "none"
    /\ ir = [instructions |-> << >>, return_reg |-> None]

\* the caller has an IR of its own: nothing to build
FromIR ==
    /\ ast = << >>
    /\ build_result = "given"
    /\ ir \in GivenIRs

Init ==
    /\ FromSource \/ FromIR
    /\ builder = NewBuilder
    /\ vm_state = "none"
    /\ ip = 0
    /\ stack = << >>
    /\ label_map = << >>
    /\ frames = << >>
    /\ return_ips = << >>

Next ==
    \/ Build
    \/ VMNew
    \/ StepHalt
    \/ StepLabel
    \/ StepCall
    \/ StepReturn
    \/ StepPush
    \/ StepPop
    \/ StepAdd
    \/ StepSub
    \/ StepMul
    \/ StepDiv
    \/ StepLoadI
    \/ StepI2i
    \/ StepJumpI
    \/ StepCmpEq
    \/ StepCmpLt
    \/ StepCmpLte
    \/ StepCmpGt
    \/ StepCmpGte
    \/ StepCondBranch

Spec == Init /\ [][Next]_vars

\* the steps of VM::new(ir) and vm.run()
Run ==
    \/ VMNew
    \/ StepHalt
    \/ StepLabel
    \/ StepCall
    \/ StepReturn
    \/ StepPush
    \/ StepPop
    \/ StepAdd
    \/ StepSub
    \/ StepMul
    \/ StepDiv
    \/ StepLoadI
    \/ StepI2i
    \/ StepJumpI
    \/ StepCmpEq
    \/ StepCmpLt
    \/ StepCmpLte
    \/ StepCmpGt
    \/ StepCmpGte
    \/ StepCondBranch

\* vm_this constructs the VM and calls run() right after build, and run() is a loop of
\* one thread that nothing suspends: a step of the VM that can be taken is taken
FairSpec == Spec /\ WF_vars(Run)

(***************************************************************************)
(* Properties of a compile-and-run.                                        *)
(***************************************************************************)
Done == vm_state = "done"
Last(s) == s[Len(s)]
Front(s) == SubSeq(s, 1, Len(s) - 1)

\* the operation at index i, counted from 0 as ip counts
instr(i) == ir.instructions[i + 1]

\* how many operations named `name` stand in a row from index i on
CountFrom(i, name) ==
    CHOOSE n \in 0..Len(ir.instructions) :
        /\ \A j \in 0..(n - 1) : i + j < Len(ir.instructions) /\ instr(i + j).op = name
        /\ ~(i + n < Len(ir.instructions) /\ instr(i + n).op = name)

\* how many operations named `name` stand in a row right before index c
CountBefore(c, name) ==
    CHOOSE n \in 0..c :
        /\ \A j \in 1..n : instr(c - j).op = name
        /\ ~(c - n - 1 >= 0 /\ instr(c - n - 1).op = name)

\* the innermost pending call: the index of its Call, the index of the callee's label
CallSite == Last(return_ips)
Entry == label_map[instr(CallSite).label]
NumParams == CountFrom(Entry + 1, "Pop")
NumArgs == CountBefore(CallSite, "Push")
\* the register of parameter i (popped i-th) and the register of argument i
\* (argument 0 is pushed last), i from 0
ParamReg(i) == instr(Entry + 1 + i).reg
ArgReg(i) == instr(CallSite - 1 - i).reg

\* the callee has popped its parameters and is about to execute its first body operation
AtBodyStart ==
    /\ vm_state = "running"
    /\ return_ips # << >>
    /\ instr(CallSite).label \in DOMAIN label_map
    /\ ip = Entry + 1 + NumParams

\* C1: for a call with as many arguments as the callee has (distinct) parameters, when
\* the callee's body starts each parameter register p_i holds the value of the caller's
\* register for argument a_i (pushes in reverse, pops in declaration order); so
\* "fn f(p0..) { p_sel; } f(base + 1, ..);" yields argument sel, and addfive(x) yields x + 5.
C1_ParamsReceiveArgs ==
    /\ (build_result = "ok" /\ AtBodyStart /\ NumParams = NumArgs) =>
          \A i \in 0..(NumParams - 1) :
              reg_get(frames, ParamReg(i)) = reg_get(Front(frames), ArgReg(i))
    /\ Done =>
          /\ \A np \in 1..MaxArgs, base \in SmallLits : \A sel \in 0..(np - 1) :
                 ast = CallProgram(np, sel, np, base) => Result = Some(base + sel + 1)
          /\ \A v \in SmallLits : ast = AddFiveProgram(v) => Result = Some(v + 5)

\* a callee with two or more parameters starts its body, holding different argument values
C1_Witness ==
    /\ build_result = "ok"
    /\ AtBodyStart
    /\ NumParams = NumArgs
    /\ NumParams >= 2
    /\ reg_get(frames, ParamReg(0)) # reg_get(frames, ParamReg(1))

\* C2: a Return with a non-empty return stack pops the top return address and the topmost
\* frame; that address is the index of a Call and execution resumes at the operation
\* right after it; a Call stores its address at the position that equals the frame depth
\* before it, and the depth after the Return equals the popped address's position.
C2_ReturnResumesAfterCall ==
    [][ /\ (Fetch("Return") /\ return_ips # << >>) =>
              /\ vm_state' = "running"
              /\ return_ips' = Front(return_ips)
              /\ frames' = Front(frames)
              /\ instr(Last(return_ips)).op = "Call"
              /\ ip' = Last(return_ips) + 1
              /\ Len(frames') = Len(return_ips)
        /\ Fetch("Call") =>
              /\ Len(return_ips) + 1 = Len(frames)
              /\ return_ips' = Append(return_ips, ip)
              /\ Len(frames') = Len(frames) + 1 ]_vars

\* a Return has just resumed a caller that is itself inside a call
C2_Witness ==
    /\ vm_state = "running"
    /\ ip > 0
    /\ instr(ip - 1).op = "Call"
    /\ Len(return_ips) >= 1
    /\ Len(frames) = Len(return_ips) + 1

\* Fibonacci numbers, F(1) = F(2) = 1
RECURSIVE Fibonacci(_)
Fibonacci(k) == IF k <= 2 THEN 1 ELSE Fibonacci(k - 1) + Fibonacci(k - 2)

\* C3: in a run of builder-generated IR no step changes a frame below the topmost one,
\* so from a Call to its matching Return every frame of the callers keeps every register;
\* powadd(u, v) yields u*u + v*v (halved by half), and the accumulator Fibonacci
\* fib(1, 1, n) yields F(n + 2).
C3_CallerFramesPreserved ==
    /\ [][ (build_result = "ok" /\ vm_state = "running") =>
              /\ Len(frames') >= Len(frames) - 1
              /\ \A k \in 1..(Len(frames) - 1) : frames'[k] = frames[k] ]_vars
    /\ [](\A u \in 0..(MaxLit + 2), v \in 0..(MaxLit + 2), half \in BOOLEAN :
             ast = NestedProgram(u, v, half) =>
                /\ vm_state # "panic"
                /\ Done => Result = Some(IF half THEN (u * u + v * v) \div 2
                                          ELSE u * u + v * v))
    /\ [](\A n \in 1..MaxFib :
             ast = FibProgram(n) =>
                /\ vm_state # "panic"
                /\ Done => Result = Some(Fibonacci(n + 2)))

\* a Return has just resumed a caller, itself inside a call, whose frame holds values
C3_Witness ==
    /\ build_result = "ok"
    /\ vm_state = "running"
    /\ ip > 0
    /\ instr(ip - 1).op = "Call"
    /\ Len(frames) >= 2
    /\ frames[Len(frames)] # NewRegisters

\* the value of the condition of CondExpr(kind, a, b)
CondValue(kind, a, b) ==
    CASE kind = "Int" -> a
      [] kind = "Eq" -> IF a = b THEN 1 ELSE 0
      [] kind = "Lt" -> IF a < b THEN 1 ELSE 0
      [] kind = "Lte" -> IF a <= b THEN 1 ELSE 0
      [] kind = "Gt" -> IF a > b THEN 1 ELSE 0
      [] kind = "Gte" -> IF a >= b THEN 1 ELSE 0

\* the value of the top-level variable `name`
TopLevelVar(name) == reg_get(frames, builder.frames[1].variables[name])

\* C4: after "if (cond) { T } else { F }" the result is T's last value when cond is 1 and
\* F's last value otherwise, 0 for an empty selected block or an absent else; and exactly
\* the selected block has executed (T sets t, F sets f).
C4_IfSelectsOneBlock ==
    Done =>
       \A kind \in CondKinds, a \in CondLits, b \in CondLits, tsel \in TrueSels, fsel \in FalseSels :
          ast = IfProgram(CondExpr(kind, a, b), tsel, fsel) =>
             /\ Result = Some(IF CondValue(kind, a, b) = 1
                              THEN (IF tsel = 0 THEN 0 ELSE TrueValue(tsel))
                              ELSE (IF fsel <= 0 THEN 0 ELSE FalseValue(fsel)))
             /\ tsel > 0 => TopLevelVar("t") = (IF CondValue(kind, a, b) = 1 THEN 1 ELSE 0)
             /\ fsel > 0 => TopLevelVar("f") = (IF CondValue(kind, a, b) = 1 THEN 0 ELSE 1)

\* an if whose condition is neither 0 nor 1 has run its else block and not its then block
C4_Witness ==
    /\ Done
    /\ ast = IfProgram(AstInt(2), 1, 1)
    /\ Result = Some(FalseValue(1))
    /\ TopLevelVar("t") = 0
    /\ TopLevelVar("f") = 1

\* CondBranch continues behind the Label of `label`, which is not the next operation
TransfersTo(label) ==
    label \in DOMAIN label_map =>
       /\ vm_state' = "running"
       /\ ip' = label_map[label] + 1
       /\ ip' # ip + 1

\* C5: CondBranch transfers to label_true when the cond register holds exactly 1 and to
\* label_false for every other value; it never continues with the next operation.
C5_CondBranchOnOne ==
    [][ Fetch("CondBranch") =>
           IF reg_get(frames, instr(ip).cond) = 1
           THEN TransfersTo(instr(ip).label_true)
           ELSE TransfersTo(instr(ip).label_false) ]_vars

\* a CondBranch on a value other than 0 and 1 has just transferred to its label_false
C5_Witness ==
    /\ vm_state = "running"
    /\ \E c \in 0..(Len(ir.instructions) - 1) :
          /\ instr(c).op = "CondBranch"
          /\ reg_get(frames, instr(c).cond) \notin {0, 1}
          /\ instr(c).label_false \in DOMAIN label_map
          /\ instr(c).label_true \in DOMAIN label_map
          /\ label_map[instr(c).label_true] # label_map[instr(c).label_false]
          /\ ip = label_map[instr(c).label_false] + 1

\* the index of the last top-level expression statement of program, 0 if it has none
LastExprStmt(program) ==
    LET stmts == {i \in 1..Len(program) :
                     program[i].k = "BlockLine" /\ program[i].line.k = "Expr"}
    IN  IF stmts = {} THEN 0 ELSE CHOOSE i \in stmts : \A j \in stmts : j <= i

\* C6: the IR's result register is the result register of the last top-level expression
\* statement, whatever function definitions follow it, and none only if the program has
\* no top-level expression statement.
C6_ResultOfLastExprStmt ==
    build_result = "ok" =>
       ir.return_reg = IF LastExprStmt(ast) = 0 THEN None
                       ELSE build(NewBuilder, SubSeq(ast, 1, LastExprStmt(ast))).out

\* C7: the empty program builds to an empty instruction list without a result register;
\* the VM run on it executes no operation, stops at once, faults nowhere, and has no result.
C7_EmptyProgram ==
    (ast = << >> /\ build_result # "given") =>
       /\ build_result \in {"none", "ok"}
       /\ build_result = "ok" => (ir.instructions = << >> /\ ir.return_reg = None)
       /\ vm_state \in {"none", "running", "done"}
       /\ vm_state = "running" => (ip = 0 /\ ENABLED StepHalt)
       /\ Done => (ip = 0 /\ Result = None /\ stack = << >> /\ frames = << NewRegisters >>)

\* the run of the built empty program has ended
C7_Witness ==
    /\ ast = << >>
    /\ build_result = "ok"
    /\ Done
    /\ Result = None

UndefLits == 1..(MaxLit + 1)

\* C8: reading an unbound name is no build error, binds it to a fresh register, emits no
\* operation, and later uses of the name take the same register; the read yields 0 at top
\* level ("y = v; x;" and "y = v; x; x + y;") and in every activation of
\* "fn f(a) { r = x; x = a; r; }", although each activation writes x after reading it.
C8_UnboundNameReadsZero ==
    /\ \A v \in SmallLits, n \in 2..3 :
          ast = UndefTopProgram(v, n) =>
             /\ build_result \in {"none", "ok"}
             /\ vm_state # "panic"
             /\ build_result = "ok" =>
                   /\ "x" \in DOMAIN builder.frames[1].variables
                   /\ builder.frames[1].variables["x"] = Global(2)
                   /\ n = 2 => /\ ir.return_reg = Some(Global(2))
                               /\ ir.instructions = << OpLoadI(v, Global(0)),
                                                       OpI2i(Global(0), Global(1)) >>
                   /\ n = 3 => ir.instructions = << OpLoadI(v, Global(0)),
                                                    OpI2i(Global(0), Global(1)),
                                                    OpBin("Add", Global(2), Global(1), Global(3)) >>
             /\ Done => Result = Some(IF n = 2 THEN 0 ELSE v)
    /\ \A w \in UndefLits, v1 \in UndefLits, v2 \in UndefLits :
          ast = UndefFnProgram(w, v1, v2) =>
             /\ build_result \in {"none", "ok"}
             /\ vm_state # "panic"
             /\ build_result = "ok" =>
                   /\ Len(ir.instructions) >= 5
                   /\ ir.instructions[4] = OpI2i(Arp(1), Arp(2))
                   /\ ir.instructions[5] = OpI2i(Arp(0), Arp(1))
             /\ Fetch("Return") => (stack # << >> /\ Last(stack) = 0)
             /\ Done => (Result = Some(0) /\ reg_get(frames, Global(3)) = 0)

\* the second activation of f, after the first one wrote x, has returned what it read
C8_Witness ==
    /\ Done
    /\ \E w \in UndefLits, v1 \in UndefLits, v2 \in UndefLits : ast = UndefFnProgram(w, v1, v2)
    /\ Result = Some(0)
    /\ reg_get(frames, Global(1)) # 0

\* C9: an assignment leaves the value in the name's register, which is its result;
\* assigning a name again takes the same register; `a = b` copies, so a later `b = ..`
\* leaves a as it was; names of one scope have registers of their own.  Checked on the
\* prefixes of "a = v1; b = v2; b = v3; a = b; b = v1; a;" and on parameters.
C9_AssignmentCopies ==
    /\ build_result = "ok" =>
          \A n1 \in DOMAIN builder.frames[1].variables, n2 \in DOMAIN builder.frames[1].variables :
              n1 # n2 => builder.frames[1].variables[n1] # builder.frames[1].variables[n2]
    /\ (build_result = "ok" /\ AtBodyStart) =>
          \A i \in 0..(NumParams - 1), j \in 0..(NumParams - 1) :
              i # j => ParamReg(i) # ParamReg(j)
    /\ \A v1 \in SmallLits, v2 \in SmallLits, v3 \in SmallLits, n \in 1..6 :
          (ast = AssignProgram(v1, v2, v3, n) /\ build_result = "ok") =>
             /\ ir.return_reg =
                   Some(builder.frames[1].variables[IF n \in {1, 4, 6} THEN "a" ELSE "b"])
             /\ n >= 3 => /\ Len(ir.instructions) >= 6
                          /\ ir.instructions[4] = OpI2i(Global(2), Global(3))
                          /\ ir.instructions[6] = OpI2i(Global(4), Global(3))
             /\ Done =>
                   /\ Result = Some(CASE n = 1 -> v1 [] n = 2 -> v2 [] n = 3 -> v3
                                      [] n = 4 -> v3 [] n = 5 -> v1 [] n = 6 -> v3)
                   /\ n >= 5 => (TopLevelVar("a") = v3 /\ TopLevelVar("b") = v1)

\* after "a = b; b = v1; a;" with v1 other than b's earlier value, a still has that value
C9_Witness ==
    /\ Done
    /\ \E v1 \in SmallLits, v2 \in SmallLits, v3 \in SmallLits :
          /\ ast = AssignProgram(v1, v2, v3, 6)
          /\ v1 # v3
          /\ Result = Some(v3)
          /\ TopLevelVar("b") = v1

\* the exact result of `a op b` does not fit i32
Overflows(op, a, b) ==
    CASE op = "Add" -> add_overflows(a, b)
      [] op = "Sub" -> sub_overflows(a, b)
      [] op = "Mul" -> mul_overflows(a, b)
      [] op = "Div" -> a = I32Min /\ b = -1

\* the exact result of `a op b` for + - *, where it fits i32
Exact(op, a, b) ==
    CASE op = "Add" -> a + b
      [] op = "Sub" -> a - b
      [] op = "Mul" -> a * b

\* the exact result of `a op b` for + - *, reduced modulo 2^32 into i32
Wrapped(op, a, b) ==
    CASE op = "Add" -> wrapping_add(a, b)
      [] op = "Sub" -> wrapping_sub(a, b)
      [] op = "Mul" -> wrapping_mul(a, b)

\* q is the quotient of a by b rounded toward zero: a = q * b + r with |r| < |b|
\* and r of the sign of a
IsTruncQuot(a, b, q) ==
    LET r == a - q * b
    IN  /\ r = 0 \/ (r > 0) = (a > 0)
        /\ IF b > 0 THEN r < b /\ r > -b ELSE r > b /\ (r <= 0 \/ b + r < 0)

\* C10 as stated: for all literals a, b (b not 0 for /) compiling and running `a op b;`
\* completes and yields the exact a + b, a - b, a * b, or the truncated quotient.
C10_ArithmeticExact ==
    \A a \in Lits, b \in Lits, op \in ArithOps :
       (ast = ArithProgram(a, op, b) /\ ~(op = "Div" /\ b = 0)) =>
          /\ build_result \in {"none", "ok"}
          /\ vm_state # "panic"
          /\ Done =>
                /\ ~Overflows(op, a, b)
                /\ IF op = "Div"
                   THEN Result = Some(trunc_div(a, b)) /\ IsTruncQuot(a, b, trunc_div(a, b))
                   ELSE Result = Some(Exact(op, a, b))

\* C10 amended: `a op b;` builds; where the exact result fits i32 (and b is not 0 for /)
\* the run completes and yields it; where it does not fit, the run faults or, for + - *,
\* completes with the result reduced modulo 2^32; `/` by 0 never completes.
C10_ArithmeticInRange ==
    \A a \in Lits, b \in Lits, op \in ArithOps :
       ast = ArithProgram(a, op, b) =>
          /\ build_result \in {"none", "ok"}
          /\ IF op = "Div" /\ b = 0 THEN ~Done
             ELSE IF Overflows(op, a, b)
             THEN Done => (op # "Div" /\ Result = Some(Wrapped(op, a, b)))
             ELSE /\ vm_state # "panic"
                  /\ Done =>
                        IF op = "Div"
                        THEN /\ Result = Some(trunc_div(a, b))
                             /\ IsTruncQuot(a, b, trunc_div(a, b))
                        ELSE Result = Some(Exact(op, a, b))

\* a division of a negative by a positive literal has completed with the quotient
\* rounded toward zero
C10_Witness ==
    /\ Done
    /\ ast = ArithProgram(-1, "Div", 2)
    /\ Result = Some(0)

\* the remainder of a by b with the sign of a, as i32's `%` gives it
trunc_rem(a, b) == a - b * trunc_div(a, b)

\* C11: for literals a, b with b not 0, compiling and running `a % b;` builds (the
\* operator Mod is lowered to an operation), completes, and yields the remainder a % b.
C11_ModYieldsRemainder ==
    \A a \in Lits, b \in Lits :
       (ast = ArithProgram(a, "Mod", b) /\ b # 0 /\ ~(a = I32Min /\ b = -1)) =>
          /\ build_result \in {"none", "ok"}
          /\ vm_state # "panic"
          /\ Done => Result = Some(trunc_rem(a, b))

\* C12: "a = start; loop { if (a >= limit) { break; } a = a + 1; } a;" with start <= limit
\* builds, its run never faults, and when the run has ended the result is limit: the
\* body was repeated until the break, which left for the first operation after the loop
\* (start 1 and limit 10 yield 10).
C12_LoopRunsUntilBreak ==
    \A start \in SmallLits, limit \in LoopLimits :
       (ast = LoopProgram(start, limit) /\ start <= limit) =>
          /\ build_result \in {"none", "ok"}
          /\ vm_state # "panic"
          /\ Done => Result = Some(limit)

\* C13: building a program with a break outside any loop returns an error value and
\* produces no IR.
C13_BreakOutsideLoopIsError ==
    \A v \in SmallLits, place \in 0..2 :
       (ast = BreakProgram(v, place) /\ build_result # "none") =>
          /\ build_result = "err"
          /\ ir.instructions = << >>
          /\ ir.return_reg = None

\* the register and the value of the last expression of FnBody(kind, v), kind not 0
BodyReg(kind) == CASE kind \in {1, 2, 3} -> Arp(0) [] kind = 4 -> Arp(1) [] kind = 5 -> Arp(2)
BodyValue(kind, v) == CASE kind = 1 -> v [] kind \in {2, 3, 4} -> 0 [] kind = 5 -> v + 1

\* C14: for "fn f() { body } f();" build returns an error and leaves no IR when the body
\* is empty; a body whose last line is an expression, an if with empty blocks included,
\* is accepted: the operation before the function's Return is the Push of that
\* expression's register, the Return finds that expression's value on top of the stack,
\* and the call yields it.
C14_FnBodyNeedsResult ==
    \A kind \in BodyKinds, v \in SmallLits :
       ast = BodyProgram(kind, v) =>
          IF kind = 0
          THEN /\ build_result \in {"none", "err"}
               /\ ir.instructions = << >>
               /\ ir.return_reg = None
               /\ vm_state = "none"
          ELSE /\ build_result \in {"none", "ok"}
               /\ vm_state # "panic"
               /\ build_result = "ok" =>
                     /\ \E i \in 1..(Len(ir.instructions) - 1) : instr(i).op = "Return"
                     /\ \A i \in 0..(Len(ir.instructions) - 1) :
                           instr(i).op = "Return" =>
                              (i > 0 /\ instr(i - 1) = OpPush(BodyReg(kind)))
               /\ Fetch("Return") =>
                     /\ stack # << >>
                     /\ Last(stack) = BodyValue(kind, v)
                     /\ reg_get(frames, BodyReg(kind)) = BodyValue(kind, v)
               /\ Done => Result = Some(BodyValue(kind, v))

\* the build of a program whose function has an empty body has returned an error
C14_Witness ==
    /\ \E v \in SmallLits : ast = BodyProgram(0, v)
    /\ build_result = "err"
    /\ ir.instructions = << >>

\* C15: after a build that returned an error the builder's scope stack is back to the
\* single top-level scope: no scope pushed for a function definition remains.
C15_FailedBuildRestoresScopes ==
    build_result = "err" => Len(builder.frames) = 1

\* two Label operations of the instruction list define the same label
HasDuplicateLabel ==
    \E i \in 0..(Len(ir.instructions) - 1), j \in 0..(Len(ir.instructions) - 1) :
       /\ i < j
       /\ instr(i).op = "Label"
       /\ instr(j).op = "Label"
       /\ instr(i).label = instr(j).label

\* C16: VM::new produces no runnable VM from an instruction list in which two Label
\* operations define the same label: construction fails and nothing of it runs.
C16_DuplicateLabelRejected ==
    HasDuplicateLabel => vm_state = "none"

\* the indices of the Label operations that define Named(name), and of the Returns
LabelsOf(name) ==
    {i \in 0..(Len(ir.instructions) - 1) : instr(i) = OpLabel(Named(name))}
Returns == {i \in 0..(Len(ir.instructions) - 1) : instr(i).op = "Return"}
Least(S) == CHOOSE i \in S : \A j \in S : i <= j

\* ip is in the body of the earliest definition of name: from its Label to its Return
InEarliestBody(name) ==
    /\ LabelsOf(name) # {}
    /\ ip >= Least(LabelsOf(name))
    /\ {r \in Returns : r > Least(LabelsOf(name))} # {}
    /\ ip <= Least({r \in Returns : r > Least(LabelsOf(name))})

\* C17: "a = f(); fn f() { v1; } b = f(); fn f() { v2; } c = f(); c;" builds to an IR with
\* two Label(Named(f)) operations, VM construction succeeds on it with f mapped to the
\* later one, the run never faults and never is inside the earlier definition's body,
\* and the calls before, between and after the definitions all yield v2.
C17_LaterDefinitionWins ==
    \A v1 \in SmallLits, v2 \in SmallLits :
       ast = RedefProgram(v1, v2) =>
          /\ build_result \in {"none", "ok"}
          /\ vm_state # "panic"
          /\ build_result = "ok" =>
                /\ Cardinality(LabelsOf("f")) = 2
                /\ vm_state = "none" => ENABLED VMNew
          /\ vm_state = "running" =>
                /\ Named("f") \in DOMAIN label_map
                /\ \A i \in LabelsOf("f") : i <= label_map[Named("f")]
                /\ ~InEarliestBody("f")
          /\ Done =>
                /\ TopLevelVar("a") = v2
                /\ TopLevelVar("b") = v2
                /\ TopLevelVar("c") = v2
                /\ Result = Some(v2)

\* the run of a program whose two definitions of f differ has ended: the call before the
\* first definition has yielded the later definition's value
C17_Witness ==
    /\ Done
    /\ \E v1 \in SmallLits, v2 \in SmallLits : v1 # v2 /\ ast = RedefProgram(v1, v2)
    /\ TopLevelVar("a") = Result[1]
    /\ Cardinality(LabelsOf("f")) = 2

\* C18: "fn f(p0..p{np-1}) { p{sel}; } f(base + 1, .., base + na);" builds whatever na and
\* np are.  With na >= np the run completes, the call yields argument sel and the na - np
\* surplus values base + np + 1 .. base + na stay on the operand stack.  With na < np the
\* run never completes: it stops at the callee's Pop number na + 1 on the empty stack.
\* In "fn f(p0, p1) { .. } f(b + 1, b + 2, b + 3); f(b + 4);" the second call's p1 takes
\* b + 3, the value the first call left behind.
C18_ArityUnchecked ==
    /\ \A np \in 0..MaxArgs, na \in 0..MaxArgs, base \in SmallLits :
          \A sel \in 0..(IF np = 0 THEN 0 ELSE np - 1) :
             ast = CallProgram(np, sel, na, base) =>
                /\ build_result \in {"none", "ok"}
                /\ na >= np =>
                      /\ vm_state # "panic"
                      /\ Done =>
                            /\ Result = Some(IF np = 0 THEN 7 ELSE base + sel + 1)
                            /\ stack = [i \in 1..(na - np) |-> base + na - i + 1]
                /\ na < np =>
                      /\ ~Done
                      /\ vm_state = "panic" =>
                            /\ stack = << >>
                            /\ Len(return_ips) = 1
                            /\ ip = label_map[Named("f")] + 1 + na
                            /\ instr(ip).op = "Pop"
    /\ \A base \in SmallLits, sel \in 0..1 :
          ast = StaleArgProgram(base, sel) =>
             /\ build_result \in {"none", "ok"}
             /\ vm_state # "panic"
             /\ Done =>
                   /\ Result = Some(IF sel = 0 THEN base + 4 ELSE base + 3)
                   /\ stack = << >>

\* a call with two surplus arguments has completed and left them on the operand stack
C18_Witness ==
    /\ Done
    /\ \E np \in 0..MaxArgs, base \in SmallLits :
          \E sel \in 0..(IF np = 0 THEN 0 ELSE np - 1) :
             /\ ast = CallProgram(np, sel, np + 2, base)
             /\ stack = << base + np + 2, base + np + 1 >>

\* the operation at ip faults: a jump, branch or call to a label without Label operation,
\* a Pop on the empty operand stack, a Return without return address, a Div by 0
FaultsAtIp ==
    /\ vm_state = "running"
    /\ ip < Len(ir.instructions)
    /\ \/ instr(ip).op \in {"JumpI", "Call"} /\ instr(ip).label \notin DOMAIN label_map
       \/ /\ instr(ip).op = "CondBranch"
          /\ (IF reg_get(frames, instr(ip).cond) = 1
              THEN instr(ip).label_true ELSE instr(ip).label_false) \notin DOMAIN label_map
       \/ instr(ip).op = "Pop" /\ stack = << >>
       \/ instr(ip).op = "Return" /\ return_ips = << >>
       \/ instr(ip).op = "Div" /\ reg_get(frames, instr(ip).rhs) = 0

\* C19: when the operation at ip faults, the run stops there: the step leaves ip at the
\* faulting operation, writes no register of any frame and leaves the operand stack as
\* it is; and a stopped run takes no further step, so no later operation executes.
C19_FaultsAreFatal ==
    [][ /\ FaultsAtIp =>
              /\ vm_state' = "panic"
              /\ ip' = ip
              /\ stack' = stack
              /\ Len(frames') >= Len(frames)
              /\ \A k \in 1..Len(frames) : frames'[k] = frames[k]
        /\ vm_state # "panic" ]_vars

\* a run has stopped at a Div by 0 that is followed by another operation; the Div's
\* destination register still has the value loaded before
C19_Witness ==
    /\ vm_state = "panic"
    /\ ip + 1 < Len(ir.instructions)
    /\ instr(ip).op = "Div"
    /\ reg_get(frames, instr(ip).rhs) = 0
    /\ reg_get(frames, instr(ip).out) # 0

\* the operations whose arm assigns ip
TransferOps == {"JumpI", "CondBranch", "Call", "Return"}

\* the value the arm of the transfer operation at ip assigns to ip: the index of the
\* target label, or the return address on top of the return stack
AssignedIp ==
    CASE instr(ip).op \in {"JumpI", "Call"} -> label_map[instr(ip).label]
      [] instr(ip).op = "CondBranch" ->
            label_map[IF reg_get(frames, instr(ip).cond) = 1
                      THEN instr(ip).label_true ELSE instr(ip).label_false]
      [] instr(ip).op = "Return" -> Last(return_ips)

\* a step of the execution loop that executes the operation at ip without a fault
ExecutesOp ==
    /\ vm_state = "running"
    /\ ip < Len(ir.instructions)
    /\ vm_state' = "running"

\* C20 as stated: a step that executes an operation other than JumpI, CondBranch, Call
\* and Return advances ip by 1; a step that executes one of these leaves ip at exactly
\* the value the operation assigned, without increment.
C20_NoIncrementAfterTransfer ==
    [][ ExecutesOp =>
           IF instr(ip).op \in TransferOps THEN ip' = AssignedIp ELSE ip' = ip + 1 ]_vars

\* C20 amended: every step that executes an operation ends with the increment: after
\* JumpI, CondBranch and Call ip is the target label's index plus 1 (the Label itself is
\* not executed), after Return it is the popped return address plus 1 (the operation
\* after the Call), after every other operation it is ip + 1.
C20_IncrementAfterEveryOperation ==
    [][ ExecutesOp =>
           IF instr(ip).op \in TransferOps THEN ip' = AssignedIp + 1 ELSE ip' = ip + 1 ]_vars

\* a JumpI further up has just transferred control: ip is behind the Label of its target,
\* which is not the operation after the JumpI
C20_Witness ==
    /\ vm_state = "running"
    /\ \E c \in 0..(Len(ir.instructions) - 1) :
          /\ instr(c).op = "JumpI"
          /\ instr(c).label \in DOMAIN label_map
          /\ label_map[instr(c).label] > c + 1
          /\ ip = label_map[instr(c).label] + 1
    /\ build_result = "ok"

\* C21: "a = v1; a op (a = v2);" combines the value a had when the left operand was
\* evaluated with the value of the right operand: the run completes and yields
\* v1 + v2 for Add and v1 - v2 for Sub (a previously 1 and `a + (a = 3)` yield 4).
C21_LeftOperandBeforeRight ==
    \A v1 \in SmallLits, v2 \in SmallLits, op \in {"Add", "Sub"} :
       ast = EvalOrderProgram(v1, op, v2) =>
          /\ build_result \in {"none", "ok"}
          /\ vm_state # "panic"
          /\ Done => Result = Some(Exact(op, v1, v2))

\* the indices of the instruction list
Indices == 0..(Len(ir.instructions) - 1)

\* index i lies in a function body of builder-generated IR: behind the Label of a
\* function name, up to and including the body's Return
InFnBody(i) ==
    \E l \in Indices :
       /\ l < i
       /\ instr(l).op = "Label"
       /\ instr(l).label.kind = "Named"
       /\ \A k \in (l + 1)..(i - 1) : instr(k).op # "Return"

\* the registers an operation writes, and all registers it names
DestRegs(o) ==
    CASE o.op \in {"Add", "Sub", "Mul", "Div", "CmpEq", "CmpLt", "CmpLte", "CmpGt", "CmpGte",
                   "LoadI"} -> {o.out}
      [] o.op = "Pop" -> {o.reg}
      [] o.op = "I2i" -> {o.rhs}
      [] OTHER -> {}
OperandRegs(o) ==
    CASE o.op \in {"Add", "Sub", "Mul", "Div", "CmpEq", "CmpLt", "CmpLte", "CmpGt", "CmpGte"} ->
            {o.lhs, o.rhs, o.out}
      [] o.op = "LoadI" -> {o.out}
      [] o.op \in {"Pop", "Push"} -> {o.reg}
      [] o.op = "I2i" -> {o.lhs, o.rhs}
      [] o.op = "CondBranch" -> {o.cond}
      [] OTHER -> {}

\* C22: the register the builder would allocate next is Global when its scope stack has
\* depth 1 and Arp when the depth is greater (as after a build that failed inside a
\* function); and in every IR that build has just returned the registers written by top-level code (literals,
\* results, variables, call results) are Global, those written inside a function body
\* (parameters by Pop, literals, if results, variables) are Arp.
C22_RegisterClassByDepth ==
    /\ next_free_reg_addr(builder).reg.class =
          (IF Len(builder.frames) = 1 THEN "Global" ELSE "Arp")
    /\ next_free_reg_addr(builder).reg.addr =
          builder.frames[Len(builder.frames)].next_free_reg_addr
    /\ (build_result = "ok" /\ vm_state = "none") =>
          \A i \in Indices : \A r \in DestRegs(instr(i)) :
              r.class = (IF InFnBody(i) THEN "Arp" ELSE "Global")

\* a built IR whose function body pops a parameter and writes an if result and whose
\* top-level code pops a call result
C22_Witness ==
    /\ build_result = "ok"
    /\ vm_state = "none"
    /\ \E i \in Indices, j \in Indices, k \in Indices :
          /\ InFnBody(i) /\ instr(i).op = "Pop"
          /\ InFnBody(j) /\ instr(j).op = "CondBranch"
          /\ ~InFnBody(k) /\ instr(k).op = "Pop"

\* the function body index i lies in: the index of its Label, -1 for top-level code
FnOf(i) ==
    IF InFnBody(i)
    THEN CHOOSE l \in Indices :
            /\ l < i /\ instr(l).op = "Label" /\ instr(l).label.kind = "Named"
            /\ \A k \in (l + 1)..(i - 1) :
                  instr(k).op # "Return" /\ ~(instr(k).op = "Label" /\ instr(k).label.kind = "Named")
    ELSE -1

\* the register indices that the code of scope f (a Label index, or -1) names
AddrsOf(f) == {r.addr : r \in UNION {OperandRegs(instr(i)) : i \in {j \in Indices : FnOf(j) = f}}}

\* the top-level statements of program that are no function definitions
IsNoFnDef(stmt) == stmt.k # "FnDef"
WithoutFnDefs(program) == SelectSeq(program, IsNoFnDef)

BinOpNames == {"Add", "Sub", "Mul", "Div", "CmpEq", "CmpLt", "CmpLte", "CmpGt", "CmpGte"}

\* C23: two successive allocations of the builder return the counter's value and its
\* successor and leave the other scopes alone.  In every IR that build has just returned
\* (builder and IR do not change afterwards) the registers of the
\* top-level scope (named by top-level code or bound to a variable) are exactly
\* 0 .. counter - 1, each function body's registers are 0 .. its highest one, two binary
\* operations of one scope never share their result register, and the top-level counter
\* is what it is for the program without its function definitions.
C23_RegisterCounterPerScope ==
    /\ next_free_reg_addr(next_free_reg_addr(builder).b).reg.addr =
          next_free_reg_addr(builder).reg.addr + 1
    /\ Front(next_free_reg_addr(builder).b.frames) = Front(builder.frames)
    /\ next_free_reg_addr(builder).b.frames[Len(builder.frames)].next_free_reg_addr =
          builder.frames[Len(builder.frames)].next_free_reg_addr + 1
    /\ (build_result = "ok" /\ vm_state = "none") =>
          /\ AddrsOf(-1) \cup {builder.frames[1].variables[n].addr :
                                  n \in DOMAIN builder.frames[1].variables}
                = 0..(builder.frames[1].next_free_reg_addr - 1)
          /\ \A l \in Indices :
                (instr(l).op = "Label" /\ instr(l).label.kind = "Named") =>
                   \A a \in AddrsOf(l) : \A c \in 0..a : c \in AddrsOf(l)
          /\ \A i \in Indices, j \in Indices :
                (i # j /\ instr(i).op \in BinOpNames /\ instr(j).op \in BinOpNames
                       /\ FnOf(i) = FnOf(j)) => instr(i).out # instr(j).out
          /\ builder.frames[1].next_free_reg_addr =
                build(NewBuilder, WithoutFnDefs(ast)).b.frames[1].next_free_reg_addr

\* a built IR with two functions that each use the registers 0, 1 and 2 and top-level
\* code that uses register 2 as well
C23_Witness ==
    /\ build_result = "ok"
    /\ \E l1 \in Indices, l2 \in Indices :
          /\ l1 # l2
          /\ instr(l1).op = "Label" /\ instr(l1).label.kind = "Named"
          /\ instr(l2).op = "Label" /\ instr(l2).label.kind = "Named"
          /\ {0, 1, 2} \subseteq AddrsOf(l1)
          /\ {0, 1, 2} \subseteq AddrsOf(l2)
    /\ 2 \in AddrsOf(-1)

\* the frame the claim gives register r: the topmost for Arp, the bottom one for Global
ClaimedFrame(r) == IF r.class = "Arp" THEN Len(frames) ELSE 1

\* a step that executes LoadI or I2i: r is the register written, v the value
WritesOnly(r, v) ==
    /\ Len(frames') = Len(frames)
    /\ \A k \in 1..Len(frames) : k # ClaimedFrame(r) => frames'[k] = frames[k]
    /\ slot_get(frames'[ClaimedFrame(r)], r.addr) = v
    /\ \A n \in 0..(Len(frames[ClaimedFrame(r)]) + Len(frames'[ClaimedFrame(r)])) :
          n # r.addr =>
             slot_get(frames'[ClaimedFrame(r)], n) = slot_get(frames[ClaimedFrame(r)], n)

\* C24: at every call depth a LoadI or I2i writes slot n of the topmost frame for Arp(n)
\* and slot n of the bottom frame for Global(n) and nothing else, and I2i reads its
\* source the same way; while only the global frame exists Arp(n) and Global(n) read the
\* same value; and in the IR whose function f writes Global(1) and Arp(0) the value
\* written to Global(1) is there after the return while Global(0) is untouched.
C24_RegisterResolution ==
    /\ [][ ExecutesOp =>
              /\ instr(ip).op = "LoadI" => WritesOnly(instr(ip).out, instr(ip).val)
              /\ instr(ip).op = "I2i" =>
                    WritesOnly(instr(ip).rhs,
                               slot_get(frames[ClaimedFrame(instr(ip).lhs)], instr(ip).lhs.addr)) ]_vars
    /\ [](Len(frames) = 1 =>
             \A n \in 0..Len(frames[1]) : reg_get(frames, Arp(n)) = reg_get(frames, Global(n)))
    /\ [](\A v \in SmallLits :
             (build_result = "given" /\ Len(ir.instructions) = 10 /\ Done
                 /\ instr(0) = OpLoadI(v + 1, Arp(0))) =>
                /\ reg_get(frames, Global(0)) = v + 1
                /\ reg_get(frames, Global(1)) = v + 3
                /\ reg_get(frames, Global(2)) = v + 3
                /\ Result = Some(v + 3))

\* inside a call, the callee's frame holding values of its own, a Global register has
\* just been written: the bottom frame has the value and the callee's frame has not
C24_Witness ==
    /\ vm_state = "running"
    /\ Len(frames) = 2
    /\ ip > 0
    /\ instr(ip - 1).op = "LoadI"
    /\ instr(ip - 1).out.class = "Global"
    /\ slot_get(frames[1], instr(ip - 1).out.addr) = instr(ip - 1).val
    /\ slot_get(frames[2], instr(ip - 1).out.addr) # instr(ip - 1).val
    /\ frames[2] # NewRegisters

\* C25: once the VM is constructed, every Label operation of the instruction list has its
\* label in the label map, mapped to that operation's index; and a Call whose callee is
\* defined behind the call site continues in the callee's body.
C25_LabelMapComplete ==
    /\ [](vm_state # "none" =>
             \A i \in Indices :
                instr(i).op = "Label" =>
                   /\ instr(i).label \in DOMAIN label_map
                   /\ label_map[instr(i).label] = i)
    /\ [][ (Fetch("Call") /\ \E i \in Indices : i > ip /\ instr(i) = OpLabel(instr(ip).label)) =>
              /\ vm_state' = "running"
              /\ ip' > ip
              /\ instr(ip' - 1) = OpLabel(instr(ip).label) ]_vars

\* the indices of the Label operations of Numbered labels, and the labels that the
\* JumpI and CondBranch operations name
NumberedLabelOps == {i \in Indices : instr(i).op = "Label" /\ instr(i).label.kind = "Numbered"}
JumpTargets ==
    {instr(i).label : i \in {j \in Indices : instr(j).op = "JumpI"}}
    \cup {instr(i).label_true : i \in {j \in Indices : instr(j).op = "CondBranch"}}
    \cup {instr(i).label_false : i \in {j \in Indices : instr(j).op = "CondBranch"}}

\* C26: in the IR that build has just returned, the Numbered labels are exactly
\* Numbered(0) .. Numbered(counter - 1) for the builder's label counter, no two Label
\* operations define the same Numbered label, and every label named by a JumpI or a
\* CondBranch is a Numbered label with a Label operation in that IR; the nested ifs
\* behind a function definition take the labels 0 (function end) to 9 and yield the
\* value of the selected inner block.
C26_NumberedLabelsUnique ==
    /\ (build_result = "ok" /\ vm_state = "none") =>
          /\ {instr(i).label.num : i \in NumberedLabelOps} = 0..(builder.next_free_label - 1)
          /\ Cardinality(NumberedLabelOps) = builder.next_free_label
          /\ \A i \in NumberedLabelOps, j \in NumberedLabelOps :
                i # j => instr(i).label # instr(j).label
          /\ \A l \in JumpTargets :
                l.kind = "Numbered" /\ \E i \in NumberedLabelOps : instr(i).label = l
    /\ \A c1 \in 0..1, c2 \in 0..1 :
          ast = NestedIfProgram(c1, c2) =>
             /\ build_result \in {"none", "ok"}
             /\ vm_state # "panic"
             /\ build_result = "ok" => builder.next_free_label = 10
             /\ Done => Result = Some(IF c1 = 1 THEN (IF c2 = 1 THEN 1 ELSE 2)
                                      ELSE (IF c2 = 1 THEN 3 ELSE 0))

\* build has returned an IR with ten Numbered labels: a function's end label and the
\* labels of an if and of the ifs in both its blocks
C26_Witness ==
    /\ build_result = "ok"
    /\ vm_state = "none"
    /\ \E c1 \in 0..1, c2 \in 0..1 : ast = NestedIfProgram(c1, c2)
    /\ Cardinality(NumberedLabelOps) = 10
    /\ Cardinality(JumpTargets) = 10

\* the IR has no Call operation: the program calls no function
NoCalls == \A i \in Indices : instr(i).op # "Call"

\* C27: a running VM stops normally exactly when ip is at or past the end of the
\* instruction list.  For built IR without Call every executed operation moves ip to a
\* higher index that is at most the length of the list, every JumpI and CondBranch names
\* labels behind itself, ip never is inside a function body (no Pop or Return of a body
\* executes), and the run ends: by the increasing ip after at most as many operations
\* as the list has.
C27_RunTerminates ==
    /\ [][ /\ (vm_state = "running" /\ ip >= Len(ir.instructions)) => vm_state' = "done"
           /\ vm_state' = "done" => (vm_state = "running" /\ ip >= Len(ir.instructions))
           /\ (build_result = "ok" /\ NoCalls /\ ExecutesOp) =>
                 (ip' > ip /\ ip' <= Len(ir.instructions)) ]_vars
    /\ []((build_result = "ok" /\ NoCalls /\ vm_state = "running") =>
             /\ ~InFnBody(ip)
             /\ \A i \in Indices :
                   /\ instr(i).op = "JumpI" => label_map[instr(i).label] > i
                   /\ instr(i).op = "CondBranch" =>
                         /\ label_map[instr(i).label_true] > i
                         /\ label_map[instr(i).label_false] > i)
    /\ ((build_result = "ok" /\ NoCalls) ~> (vm_state \in {"done", "panic"}))

\* the run of a program with function definitions and no call has ended normally
\* without a return address ever pushed, all operations behind the bodies executed
C27_Witness ==
    /\ Done
    /\ build_result = "ok"
    /\ NoCalls
    /\ \E i \in Indices : instr(i).op = "Return"
    /\ ip = Len(ir.instructions)
    /\ Result = Some(2)

\* C28: in every state of a constructed VM, stopped ones included, there is one frame
\* more than there are saved return addresses, so the global frame is always there; a
\* Return that finds no return address stops the run and removes no frame.
C28_FramesMatchReturnIps ==
    /\ [](vm_state # "none" =>
             /\ Len(frames) = Len(return_ips) + 1
             /\ Len(frames) >= 1)
    /\ [][ (Fetch("Return") /\ return_ips = << >>) =>
              /\ vm_state' = "panic"
              /\ frames' = frames
              /\ return_ips' = return_ips ]_vars

\* a Return without pending Call has stopped the run; the global frame, holding a value,
\* is still there
C28_Witness ==
    /\ vm_state = "panic"
    /\ ip < Len(ir.instructions)
    /\ instr(ip).op = "Return"
    /\ return_ips = << >>
    /\ Len(frames) = 1
    /\ frames[1] # NewRegisters

Greatest(S) == CHOOSE i \in S : \A j \in S : j <= i

\* every Call of the IR names a defined function and is preceded by as many Pushes as
\* the function's (last) definition starts with Pops
ArityMatched ==
    \A c \in Indices :
       instr(c).op = "Call" =>
          /\ LabelsOf(instr(c).label.name) # {}
          /\ CountBefore(c, "Push") = CountFrom(Greatest(LabelsOf(instr(c).label.name)) + 1, "Pop")

\* the operand stack depth that belongs to position i of builder-generated IR: the
\* arguments pushed so far in front of a Call, the parameters still to pop behind a
\* function's label, the one result awaited by the Pop behind a Call or carried by a
\* Return, and nothing anywhere else
DepthAt(i) ==
    CASE instr(i).op \in {"Push", "Call"} -> CountBefore(i, "Push")
      [] instr(i).op = "Pop" -> CountFrom(i, "Pop")
      [] instr(i).op = "Return" -> 1
      [] OTHER -> 0

\* C29: in a run of built IR whose calls all match their callee's parameter count, the
\* operand stack holds exactly what the call sequence at ip has pushed and not yet
\* popped: it is empty at the first argument Push of every call and again behind the
\* result's Pop, empty at every operation that starts a top-level statement, and empty
\* when the run has come to the end of the list.
C29_OperandStackBalanced ==
    (build_result = "ok" /\ vm_state \in {"running", "done"} /\ ArityMatched) =>
       IF ip < Len(ir.instructions)
       THEN Len(stack) = DepthAt(ip)
       ELSE stack = << >>

\* a call inside a call has completed its sequence: its result has just been popped
\* inside the caller's body and the operand stack is empty again
C29_Witness ==
    /\ build_result = "ok"
    /\ vm_state = "running"
    /\ ArityMatched
    /\ Len(return_ips) >= 1
    /\ ip >= 2
    /\ ip < Len(ir.instructions)
    /\ instr(ip - 1).op = "Pop"
    /\ instr(ip - 2).op = "Call"
    /\ CountBefore(ip - 2, "Push") >= 1
    /\ stack = << >>

\* C30: in the IR that build has just returned every register named between a
\* function's label and its Return is an Arp register, every register named by top-level
\* code and the result register are Global registers.  In a run of built IR no
\* operation of a function body changes the global frame, and a body runs in a frame
\* of its own.  In "x = v; fn f() { y = x; x = w; y + x; } r = f(); x;" the body's x is
\* not the top-level x: f reads 0 for it and yields w, and x still is v afterwards.
C30_ScopesAreSeparate ==
    /\ []((build_result = "ok" /\ vm_state = "none") =>
             /\ \A i \in Indices : \A r \in OperandRegs(instr(i)) :
                   r.class = (IF InFnBody(i) THEN "Arp" ELSE "Global")
             /\ ir.return_reg # None => ir.return_reg[1].class = "Global")
    /\ []((build_result = "ok" /\ vm_state = "running" /\ InFnBody(ip)) => Len(frames) >= 2)
    /\ [][ (build_result = "ok" /\ ExecutesOp /\ InFnBody(ip)) => frames'[1] = frames[1] ]_vars
    /\ [](\A v \in UndefLits, w \in UndefLits :
             ast = ShadowProgram(v, w) =>
                /\ build_result \in {"none", "ok"}
                /\ vm_state # "panic"
                /\ Done => /\ Result = Some(v)
                           /\ TopLevelVar("x") = v
                           /\ TopLevelVar("r") = w)

\* the run of the program whose function assigns its own x has ended: the function has
\* yielded the value it assigned and the top-level x has another value
C30_Witness ==
    /\ Done
    /\ \E v \in UndefLits, w \in UndefLits : ast = ShadowProgram(v, w) /\ v # w
    /\ TopLevelVar("r") # TopLevelVar("x")
    /\ TopLevelVar("r") # 0

====
